---- MODULE Spec2Model ----
(***************************************************************************)
(* Gravity Agents environment server: the session registry of server.js,   *)
(* the four task state machines (GapCrossingTask, GapCrossingTaskV2,       *)
(* ThrowBlockTask, ThrowBlockTaskV2) and the PhysicsWorld adapter.         *)
(*                                                                         *)
(* Lengths and speeds are fixed-point integers in thousandths (1.8 m is    *)
(* 1800, 4.0 m/s is 4000).  A timeStep of 1/hz seconds is held as hz.      *)
(* A JavaScript value of a configuration field is a record with a type tag *)
(* t ("undef", "num", "str"), so that undefined is a value of its own.     *)
(***************************************************************************)
EXTENDS Integers, Sequences, FiniteSets, TLC

VARIABLES
    environments,   \* server.js:26  the Map sessionId -> env
    now,            \* Date.now(), in ms since one second before the server started
    pending,        \* the requests received and not yet served, in order of
                    \* arrival: the queue of the one process that serves them
    request,        \* the last request served
    response,       \* the HTTP response to the last request
    sessionLog,     \* per session: the config its reset supplied, the reset's
                    \* response, the actions stepped since, the success
                    \* predicate after each, and the last step's response
    resets          \* number of reset requests served (names the env objects)

vars == <<environments, now, pending, request, response, sessionLog, resets>>

----------------------------------------------------------------------------
(* JavaScript values of configuration fields *)

Undefined == [t |-> "undef", n |-> 0, s |-> ""]
Num(x) == [t |-> "num", n |-> x, s |-> ""]
Str(x) == [t |-> "str", n |-> 0, s |-> x]

\* obj[key]: undefined when the object has no such key
Get(obj, key) == IF key \in DOMAIN obj THEN obj[key] ELSE Undefined

\* a ?? b
Coalesce(a, b) == IF a.t = "undef" THEN b ELSE a

\* { ...a, ...b }: every key of b, defined or not, overrides a
Spread(a, b) == [k \in DOMAIN a \cup DOMAIN b |-> IF k \in DOMAIN b THEN b[k] ELSE a[k]]

----------------------------------------------------------------------------
(* PhysicsWorld: the wrapper around the physics engine *)

Vec(x, y, z) == <<x, y, z>>

NoNaN == <<FALSE, FALSE, FALSE>>

\* A body of the engine.  nan[i]: component i of its position and velocity
\* is NaN (the number held for that component is then 0 and means nothing).
Body(position, size, mass) ==
    [pos |-> position, vel |-> Vec(0, 0, 0), size |-> size, mass |-> mass, nan |-> NoNaN]

\* new PhysicsWorld({gravity, timeStep}): gravity ?? 9.81, timeStep ?? 1/60.
\* engine: the number of bodies the engine holds; stepnumber: the number of
\* steps the engine has taken.
PhysicsWorld(gravity, timeStep) ==
    [gravity |-> Coalesce(gravity, Num(9810)).n,
     hz |-> Coalesce(timeStep, Num(60)).n,
     bodies |-> <<>>,
     engine |-> 0,
     stepnumber |-> 0]

\* addBody: the engine gets one more body, the name map the body under its name
addBody(world, name, body) ==
    [world EXCEPT !.bodies = [k \in DOMAIN world.bodies \cup {name} |->
                                 IF k = name THEN body ELSE world.bodies[k]],
                  !.engine = world.engine + 1]

\* createBox(name, {position, size, mass})
createBox(world, name, position, size, mass) ==
    addBody(world, name, Body(position, size, mass))

\* createCapsule(name, {position, radius, height, mass})
createCapsule(world, name, position, radius, height, mass) ==
    addBody(world, name, Body(position, Vec(2 * radius, height, 2 * radius), mass))

\* getBody(name): the body, or absent
hasBody(world, name) == name \in DOMAIN world.bodies

\* getBodyState(name): position and velocity as arrays (null when absent)
getBodyState(world, name) ==
    IF hasBody(world, name)
    THEN [present |-> TRUE, position |-> world.bodies[name].pos,
          velocity |-> world.bodies[name].vel, nan |-> world.bodies[name].nan]
    ELSE [present |-> FALSE, position |-> Vec(0, 0, 0),
          velocity |-> Vec(0, 0, 0), nan |-> NoNaN]

\* The static boxes a body at (x, z) with its underside at or above their top
\* could come to rest on.
Supports(world, x, z, bottom) ==
    {n \in DOMAIN world.bodies :
        LET b == world.bodies[n] IN
        /\ b.mass = 0
        /\ 2 * (x - b.pos[1]) <= b.size[1] /\ 2 * (b.pos[1] - x) <= b.size[1]
        /\ 2 * (z - b.pos[3]) <= b.size[3] /\ 2 * (b.pos[3] - z) <= b.size[3]
        /\ 2 * bottom >= 2 * b.pos[2] + b.size[2]}

Top(b) == b.pos[2] + b.size[2] \div 2

Max(a, b) == IF a >= b THEN a ELSE b
Min(a, b) == IF a <= b THEN a ELSE b

\* One engine step of a dynamic body: gravity changes the vertical velocity,
\* the velocity moves the body, and a body that would sink into the top of a
\* static box below it comes to rest on that box.  A NaN component stays NaN,
\* and a body with a NaN component rests on nothing.
StepBody(world, b) ==
    IF b.mass = 0 THEN b
    ELSE
      LET vy == b.vel[2] - world.gravity \div world.hz
          x  == IF b.nan[1] THEN 0 ELSE b.pos[1] + b.vel[1] \div world.hz
          z  == IF b.nan[3] THEN 0 ELSE b.pos[3] + b.vel[3] \div world.hz
          y  == b.pos[2] + vy \div world.hz
          half == b.size[2] \div 2
          under == Supports(world, x, z, b.pos[2] - half)
          hit == {n \in under : y - half < Top(world.bodies[n])}
      IN IF b.nan[2] THEN [b EXCEPT !.pos = Vec(x, 0, z)]
         ELSE IF hit = {} \/ b.nan[1] \/ b.nan[3]
              THEN [b EXCEPT !.pos = Vec(x, y, z), !.vel = Vec(b.vel[1], vy, b.vel[3])]
         ELSE LET n == CHOOSE m \in hit : \A o \in hit : Top(world.bodies[o]) <= Top(world.bodies[m])
              IN [b EXCEPT !.pos = Vec(x, Top(world.bodies[n]) + half, z),
                           !.vel = Vec(b.vel[1], 0, b.vel[3])]

\* step(): world.step(timeStep)
WorldStep(world) ==
    [world EXCEPT !.bodies = [n \in DOMAIN world.bodies |-> StepBody(world, world.bodies[n])],
                  !.stepnumber = world.stepnumber + 1]

----------------------------------------------------------------------------
(* BaseTask: the seeded generator *)

MaxInt31 == 2147483647       \* 0x7fffffff

\* a * b for a, b in 0 .. 2^31 - 1, as hi * 2^31 + lo, without leaving 32
\* bits: the factors are split in digits of 15 bits
Product(a, b) ==
    LET a0 == a % 32768
        a1 == (a \div 32768) % 32768
        a2 == a \div 1073741824
        b0 == b % 32768
        b1 == (b \div 32768) % 32768
        b2 == b \div 1073741824
        c0 == a0 * b0
        c1 == a1 * b0 + a0 * b1 + c0 \div 32768
        c2 == a2 * b0 + a1 * b1 + a0 * b2 + c1 \div 32768
        c3 == a2 * b1 + a1 * b2 + c2 \div 32768
        c4 == a2 * b2 + c3 \div 32768
    IN [hi |-> ((c2 % 32768) \div 2) + ((c3 % 32768) * 16384) + (c4 * 536870912),
        lo |-> (c0 % 32768) + ((c1 % 32768) * 32768) + ((c2 % 2) * 1073741824)]

\* the spacing of the double-precision numbers at hi * 2^31: 53 bits
Ulp(hi) ==
    IF hi < 4194304 THEN 1
    ELSE IF hi < 8388608 THEN 2
    ELSE IF hi < 16777216 THEN 4
    ELSE IF hi < 33554432 THEN 8
    ELSE IF hi < 67108864 THEN 16
    ELSE IF hi < 134217728 THEN 32
    ELSE IF hi < 268435456 THEN 64
    ELSE IF hi < 536870912 THEN 128
    ELSE IF hi < 1073741824 THEN 256
    ELSE 512

\* the double nearest to v, ties to even: what a Number holds of v
RoundToDouble(v) ==
    LET ulp == Ulp(v.hi)
        r == v.lo % ulp
        base == v.lo - r
        up == 2 * r > ulp \/ (2 * r = ulp /\ (base \div ulp) % 2 = 1)
    IN IF ~up THEN [hi |-> v.hi, lo |-> base]
       ELSE IF base > MaxInt31 - ulp THEN [hi |-> v.hi + 1, lo |-> 0]
       ELSE [hi |-> v.hi, lo |-> base + ulp]

\* v + n and v - n for 0 <= n < 2^31
Plus(v, n) ==
    IF v.lo > MaxInt31 - n THEN [hi |-> v.hi + 1, lo |-> (v.lo - (MaxInt31 - n)) - 1]
    ELSE [hi |-> v.hi, lo |-> v.lo + n]

Minus(v, n) ==
    IF v.lo < n THEN [hi |-> v.hi - 1, lo |-> (MaxInt31 - n) + v.lo + 1]
    ELSE [hi |-> v.hi, lo |-> v.lo - n]

\* (-lo) & 0x7fffffff
Neg31(lo) == IF lo = 0 THEN 0 ELSE (MaxInt31 - lo) + 1

\* The state after one draw: (seed * 1103515245 + 12345) & 0x7fffffff, for
\* an integer seed of magnitude below 2^31.  The product and the sum are
\* Numbers: above 2^53 each is rounded to the nearest double before the
\* mask takes the low 31 bits.  A boolean seed multiplies as 0 or 1; an
\* undefined seed, or a string that is no numeral, makes the product NaN,
\* and NaN & 0x7fffffff is 0.
NextSeed(seed) ==
    IF seed.t \notin {"num", "bool"} THEN 0
    ELSE IF seed.n >= 0
    THEN RoundToDouble(Plus(RoundToDouble(Product(seed.n, 1103515245)), 12345)).lo
    ELSE Neg31(RoundToDouble(Minus(RoundToDouble(Product(0 - seed.n, 1103515245)), 12345)).lo)

\* seededRandom() * span, with seededRandom() = state / 0x7fffffff:
\* (state / 2^11) * span / 2^20, which stays within 32 bits for span < 2^11
ScaleBySeed(state, span) == ((state \div 2048) * span) \div 1048576

\* a draw added to the upper end of the range
randomInRangeFromMax(state, min, max) == max + ScaleBySeed(state, max - min)

\* randomInRange(min, max), given the generator's state after the draw
randomInRange(state, min, max) == min + ScaleBySeed(state, max - min)

requiredSuccessSteps == 5

----------------------------------------------------------------------------
(* The task classes: constants set by the constructors *)

TaskClasses == {"GapCrossingTask", "GapCrossingTaskV2", "ThrowBlockTask", "ThrowBlockTaskV2"}
GapClasses == {"GapCrossingTask", "GapCrossingTaskV2"}

GapActions == <<"forward", "back", "left", "right", "jump", "idle">>
ThrowActions == <<"forward", "back", "left", "right", "pick", "drop",
                  "throw_weak", "throw_medium", "throw_strong", "idle">>

actions(cls) == IF cls \in GapClasses THEN GapActions ELSE ThrowActions

agentHeight == 1800
agentRadius == 400
platformHeight == 500

platformSize(cls) == IF cls = "ThrowBlockTask" THEN 8000 ELSE 6000
blockSize(cls) == IF cls = "ThrowBlockTask" THEN 400 ELSE 350
\* block masses 2.0 and 0.8, in thousandths
blockMass(cls) == IF cls = "ThrowBlockTask" THEN 2000 ELSE 800
basketWidth(cls) == IF cls = "ThrowBlockTask" THEN 1200 ELSE 1500
basketDepth(cls) == IF cls = "ThrowBlockTask" THEN 1200 ELSE 1500
basketWallHeight(cls) == IF cls = "ThrowBlockTask" THEN 800 ELSE 600
basketWallThickness == 100
pickupRange(cls) == IF cls = "ThrowBlockTask" THEN 1500 ELSE 1800

NoZone == [minX |-> 0, maxX |-> 0, minY |-> 0, maxY |-> 0, minZ |-> 0, maxZ |-> 0]

\* BaseTask constructor plus the fields the subclasses' constructors set
BaseTask(cls) ==
    [cls |-> cls,
     successSteps |-> 0,
     isGrounded |-> FALSE,
     canJump |-> TRUE,
     lastJumpTime |-> 0,
     holdingBlock |-> FALSE,
     gapStart |-> 0, gapEnd |-> 0, actualGapWidth |-> 0,
     goalZone |-> NoZone,
     basketBounds |-> NoZone,
     basketHeight |-> 0,
     actualBasketDistance |-> 0]

----------------------------------------------------------------------------
(* setup(): scene construction.  Each returns the task, the world and the  *)
(* generator state that seededRandom() left in config.seed.                *)

\* the goal zone of the first traversal revision, around platform B
GoalZoneV1(platformBX) ==
    [minX |-> platformBX - 5000 \div 2 + 500,
     maxX |-> platformBX + 5000 \div 2 - 500,
     minZ |-> 0 - 5000 \div 2 + 500,
     maxZ |-> 5000 \div 2 - 500,
     minY |-> 0,
     maxY |-> 2000]

GapCrossingTaskSetup(task, world, config) ==
    LET gapWidth == Coalesce(Get(config, "gapWidth"), Num(3000)).n
        gapVariance == Coalesce(Get(config, "gapVariance"), Num(500)).n
        state == NextSeed(Get(config, "seed"))
        actualGap == gapWidth + randomInRange(state, 0 - gapVariance, gapVariance)
        w1 == createBox(world, "platformA", Vec(0, 0 - platformHeight \div 2, 0),
                        Vec(5000, platformHeight, 5000), 0)
        platformBX == 5000 \div 2 + actualGap + 5000 \div 2
        w2 == createBox(w1, "platformB", Vec(platformBX, 0 - platformHeight \div 2, 0),
                        Vec(5000, platformHeight, 5000), 0)
        agentStartX == 0 - 5000 \div 4
        w3 == createCapsule(w2, "agent", Vec(agentStartX, agentHeight \div 2 + 100, 0),
                            agentRadius, agentHeight, 70)
    IN [task |-> [task EXCEPT !.goalZone = GoalZoneV1(platformBX),
                              !.gapStart = 5000 \div 2,
                              !.gapEnd = 5000 \div 2 + actualGap,
                              !.actualGapWidth = actualGap],
        world |-> w3,
        seed |-> state]

\* the goal zone of the second traversal revision: a custom zone, a zone of
\* a given width centred on platform B, or most of the platform
GoalZoneV2(platformBX, landingZoneStart, landingZoneEnd, landingZoneWidth) ==
    LET custom == landingZoneStart.t # "undef" /\ landingZoneEnd.t # "undef"
        halfWidth == landingZoneWidth.n \div 2
    IN [minX |-> IF custom THEN landingZoneStart.n
                 ELSE IF landingZoneWidth.t # "undef" THEN platformBX - halfWidth
                 ELSE platformBX - 4000 \div 2 + 800,
        maxX |-> IF custom THEN landingZoneEnd.n
                 ELSE IF landingZoneWidth.t # "undef" THEN platformBX + halfWidth
                 ELSE platformBX + 4000 \div 2 - 800,
        minZ |-> 0 - 3000 \div 2 + 800,
        maxZ |-> 3000 \div 2 - 800,
        minY |-> 0,
        maxY |-> 2000]

GapCrossingTaskV2Setup(task, world, config) ==
    LET gapWidth == Coalesce(Get(config, "gapWidth"), Num(4600)).n
        gapVariance == Coalesce(Get(config, "gapVariance"), Num(100)).n
        goalPlatformWidth == Coalesce(Get(config, "goalPlatformWidth"), Num(4000)).n
        state == NextSeed(Get(config, "seed"))
        actualGap == gapWidth + randomInRange(state, 0 - gapVariance, gapVariance)
        w1 == createBox(world, "platformA", Vec(0, 0 - platformHeight \div 2, 0),
                        Vec(4000, platformHeight, 3000), 0)
        platformBX == 4000 \div 2 + actualGap + goalPlatformWidth \div 2
        w2 == createBox(w1, "platformB", Vec(platformBX, 0 - platformHeight \div 2, 0),
                        Vec(goalPlatformWidth, platformHeight, 3000), 0)
        agentStartX == 0 - 4000 \div 3
        w3 == createCapsule(w2, "agent", Vec(agentStartX, agentHeight \div 2 + 100, 0),
                            agentRadius, agentHeight, 80)
    IN [task |-> [task EXCEPT !.goalZone = GoalZoneV2(platformBX,
                                               Get(config, "landingZoneStart"),
                                               Get(config, "landingZoneEnd"),
                                               Get(config, "landingZoneWidth")),
                              !.gapStart = 4000 \div 2,
                              !.gapEnd = 4000 \div 2 + actualGap,
                              !.actualGapWidth = actualGap],
        world |-> w3,
        seed |-> state]

\* the basket: a floor and four walls around (basketX, basketY)
Basket(cls, world, basketX, basketY) ==
    LET wallOffset == (basketWidth(cls) - basketWallThickness) \div 2
        wallHeight == basketWallHeight(cls)
        w1 == createBox(world, "basketFloor", Vec(basketX, basketY, 0),
                        Vec(basketWidth(cls), basketWallThickness, basketDepth(cls)), 0)
        w2 == createBox(w1, "basketWallLeft", Vec(basketX - wallOffset, basketY + wallHeight \div 2, 0),
                        Vec(basketWallThickness, wallHeight, basketDepth(cls)), 0)
        w3 == createBox(w2, "basketWallRight", Vec(basketX + wallOffset, basketY + wallHeight \div 2, 0),
                        Vec(basketWallThickness, wallHeight, basketDepth(cls)), 0)
        w4 == createBox(w3, "basketWallFront", Vec(basketX, basketY + wallHeight \div 2, 0 - wallOffset),
                        Vec(basketWidth(cls), wallHeight, basketWallThickness), 0)
    IN createBox(w4, "basketWallBack", Vec(basketX, basketY + wallHeight \div 2, wallOffset),
                 Vec(basketWidth(cls), wallHeight, basketWallThickness), 0)

BasketBounds(cls, basketX, basketY) ==
    [minX |-> basketX - basketWidth(cls) \div 2 + basketWallThickness,
     maxX |-> basketX + basketWidth(cls) \div 2 - basketWallThickness,
     minY |-> basketY,
     maxY |-> basketY + basketWallHeight(cls),
     minZ |-> 0 - basketDepth(cls) \div 2 + basketWallThickness,
     maxZ |-> basketDepth(cls) \div 2 - basketWallThickness]

\* setup() of both manipulation revisions; the revisions differ in the
\* defaults, the start positions and the sizes
ThrowBlockTaskSetup(task, world, config) ==
    LET cls == task.cls
        v1 == cls = "ThrowBlockTask"
        basketDistance == Coalesce(Get(config, "basketDistance"), Num(IF v1 THEN 6000 ELSE 4000)).n
        basketDistanceVariance ==
            Coalesce(Get(config, "basketDistanceVariance"), Num(IF v1 THEN 1000 ELSE 500)).n
        basketHeight == Coalesce(Get(config, "basketHeight"), Num(IF v1 THEN 1500 ELSE 1000)).n
        state == NextSeed(Get(config, "seed"))
        actualDistance == basketDistance +
            randomInRange(state, 0 - basketDistanceVariance, basketDistanceVariance)
        w1 == createBox(world, "platform", Vec(0, 0 - platformHeight \div 2, 0),
                        Vec(platformSize(cls), platformHeight, platformSize(cls)), 0)
        w2 == createCapsule(w1, "agent", Vec(IF v1 THEN 0 - 2000 ELSE 0 - 1500, agentHeight \div 2 + 100, 0),
                            agentRadius, agentHeight, 70)
        w3 == createBox(w2, "block", Vec(IF v1 THEN 0 - 1500 ELSE 0 - 800, blockSize(cls) \div 2 + 100, 0),
                        Vec(blockSize(cls), blockSize(cls), blockSize(cls)), blockMass(cls))
    IN [task |-> [task EXCEPT !.basketBounds = BasketBounds(cls, actualDistance, basketHeight),
                              !.basketHeight = basketHeight,
                              !.actualBasketDistance = actualDistance],
        world |-> Basket(cls, w3, actualDistance, basketHeight),
        seed |-> state]

\* task.setup()
setup(task, world, config) ==
    IF task.cls = "GapCrossingTask" THEN GapCrossingTaskSetup(task, world, config)
    ELSE IF task.cls = "GapCrossingTaskV2" THEN GapCrossingTaskV2Setup(task, world, config)
    ELSE ThrowBlockTaskSetup(task, world, config)

\* new TaskClass(world, config): the constructor ends with this.setup()
NewTask(cls, world, config) == setup(BaseTask(cls), world, config)

----------------------------------------------------------------------------
(* Numeric helpers *)

Abs(x) == IF x < 0 THEN 0 - x ELSE x

RECURSIVE SqrtIter(_, _)
SqrtIter(n, x) ==
    LET y == (x + n \div x) \div 2
    IN IF y >= x THEN x ELSE SqrtIter(n, y)

\* Math.sqrt, rounded down, of a non-negative number
Sqrt(n) == IF n <= 0 THEN 0 ELSE SqrtIter(n, n)

\* Math.max(-maxSpeed, Math.min(maxSpeed, v))
Clamp(v, maxSpeed) == Max(0 - maxSpeed, Min(maxSpeed, v))

\* sqrt(2 * g * height): a number, or NaN when config.gravity is undefined
\* or negative
JumpVelocity(gravity, height) ==
    IF gravity.t = "num" /\ gravity.n >= 0
    THEN [nan |-> FALSE, v |-> Sqrt(2 * gravity.n * height)]
    ELSE [nan |-> TRUE, v |-> 0]

\* A faulty predicate, to try the jump against: every agent is grounded
GroundedAlways(agent) == TRUE

\* Math.abs(velocity.y) < 0.1 && position.y < agentHeight / 2 + 0.3
Grounded(agent) ==
    /\ ~agent.nan[2]
    /\ Abs(agent.vel[2]) < 100
    /\ agent.pos[2] < agentHeight \div 2 + 300

\* typeof action === 'number' ? this.actions[action] : action.toLowerCase()
\* the strings with capital letters that requests use, each with the string
\* String.prototype.toLowerCase makes of it
Cased ==
    {<<"FORWARD", "forward">>, <<"BACK", "back">>, <<"LEFT", "left">>, <<"RIGHT", "right">>,
     <<"JUMP", "jump">>, <<"Jump", "jump">>, <<"IDLE", "idle">>, <<"Idle", "idle">>,
     <<"PICK", "pick">>, <<"Pick", "pick">>, <<"DROP", "drop">>, <<"Drop", "drop">>,
     <<"THROW_WEAK", "throw_weak">>, <<"Throw_Weak", "throw_weak">>,
     <<"THROW_MEDIUM", "throw_medium">>, <<"throw_MEDIUM", "throw_medium">>,
     <<"THROW_STRONG", "throw_strong">>, <<"Throw_strong", "throw_strong">>}

ToLowerCase(str) ==
    IF \E pair \in Cased : pair[1] = str
    THEN (CHOOSE pair \in Cased : pair[1] = str)[2]
    ELSE str

\* a value that is neither a string nor a number has no toLowerCase: TypeError
ActionThrows(action) == action.t \notin {"num", "str"}

\* A faulty lookup, to try the numbering of the actions against: it counts
\* the action list from one.
ActionStrFromOne(cls, action) ==
    IF action.t = "num"
    THEN IF action.n \in 1 .. Len(actions(cls)) THEN actions(cls)[action.n] ELSE "undefined"
    ELSE ToLowerCase(action.s)

ActionStr(cls, action) ==
    IF action.t = "num"
    THEN IF action.n \in 0 .. Len(actions(cls)) - 1 THEN actions(cls)[action.n + 1] ELSE "undefined"
    ELSE ToLowerCase(action.s)

WithAgent(world, agent) == [world EXCEPT !.bodies["agent"] = agent]
WithBlock(world, block) == [world EXCEPT !.bodies["block"] = block]

----------------------------------------------------------------------------
(* applyAction(action, params): one application of an action.  The result  *)
(* holds the task and world it leaves and whether it threw a TypeError.    *)

Applied(task, world) == [task |-> task, world |-> world, threw |-> FALSE]
Thrown(task, world) == [task |-> task, world |-> world, threw |-> TRUE]

SetX(b, v) == [b EXCEPT !.vel[1] = v]
SetZ(b, v) == [b EXCEPT !.vel[3] = v]

\* the agent with its horizontal velocity clamped to maxSpeed
ClampAgent(agent, maxSpeed) ==
    [agent EXCEPT !.vel[1] = Clamp(agent.vel[1], maxSpeed),
                  !.vel[3] = Clamp(agent.vel[3], maxSpeed)]

\* agent.velocity.y = jumpVelocity
Launch(agent, jump) ==
    [agent EXCEPT !.vel[2] = jump.v, !.nan[2] = jump.nan]

GapCrossingTaskApplyAction(task, world, config, action) ==
    IF ~hasBody(world, "agent") THEN Applied(task, world)
    ELSE
      LET agent == world.bodies["agent"]
          isGrounded == Grounded(agent)
          t1 == [task EXCEPT !.isGrounded = isGrounded]
          actionStr == ActionStr(task.cls, action)
          jumps == actionStr = "jump" /\ isGrounded /\ task.canJump
          moved ==
            CASE actionStr = "forward" -> SetX(agent, 4000)
              [] actionStr = "back" -> SetX(agent, 0 - 4000)
              [] actionStr = "left" -> SetZ(agent, 0 - 3000)
              [] actionStr = "right" -> SetZ(agent, 3000)
              [] actionStr = "jump" ->
                    IF jumps THEN Launch(agent, JumpVelocity(Get(config, "gravity"), 2000))
                    ELSE agent
              [] OTHER -> SetZ(SetX(agent, (agent.vel[1] * 9) \div 10), (agent.vel[3] * 9) \div 10)
          \* a jump clears canJump; being grounded sets it again at once
          canJump == IF isGrounded THEN TRUE ELSE (task.canJump /\ ~jumps)
      IN IF ActionThrows(action) THEN Thrown(t1, world)
         ELSE Applied([t1 EXCEPT !.canJump = canJump],
                      WithAgent(world, ClampAgent(moved, 5000)))

jumpCooldownMs == 500

\* A faulty run-up test, to try the direction of the run-up against: speed
\* over the ground in any direction counts.
RunUpAnyDirection(agent) ==
    agent.vel[1] * agent.vel[1] + agent.vel[3] * agent.vel[3] > (3000 \div 2) * (3000 \div 2)

\* run-up bonus: forwardSpeed = agent.velocity.x; forwardSpeed > moveSpeed * 0.5
RunUp(agent) == agent.vel[1] > 3000 \div 2

GapCrossingTaskV2ApplyAction(task, world, config, action, clock) ==
    IF ~hasBody(world, "agent") THEN Applied(task, world)
    ELSE
      LET agent == world.bodies["agent"]
          wasGrounded == task.isGrounded
          isGrounded == Grounded(agent)
          \* reset jump cooldown when landing
          canJump0 == IF ~wasGrounded /\ isGrounded THEN TRUE ELSE task.canJump
          t1 == [task EXCEPT !.isGrounded = isGrounded, !.canJump = canJump0]
          actionStr == ActionStr(task.cls, action)
          jumps == /\ actionStr = "jump" /\ isGrounded /\ canJump0
                   /\ (clock - task.lastJumpTime) > jumpCooldownMs
          base == JumpVelocity(Get(config, "gravity"), 1200)
          jumpVelocity == IF RunUp(agent)
                          THEN [base EXCEPT !.v = (base.v * 13) \div 10]
                          ELSE base
          moved ==
            CASE actionStr = "forward" ->
                    IF isGrounded THEN SetX(agent, 3000)
                    ELSE SetX(agent, Min(agent.vel[1] + 90, 4000))
              [] actionStr = "back" ->
                    IF isGrounded THEN SetX(agent, 0 - 3000)
                    ELSE SetX(agent, Max(agent.vel[1] - 90, 0 - 4000))
              [] actionStr = "left" ->
                    IF isGrounded THEN SetZ(agent, 0 - 2400)
                    ELSE SetZ(agent, agent.vel[3] - 45)
              [] actionStr = "right" ->
                    IF isGrounded THEN SetZ(agent, 2400)
                    ELSE SetZ(agent, agent.vel[3] + 45)
              [] actionStr = "jump" ->
                    IF jumps THEN Launch(agent, jumpVelocity) ELSE agent
              [] OTHER ->
                    IF isGrounded
                    THEN SetZ(SetX(agent, (agent.vel[1] * 85) \div 100), (agent.vel[3] * 85) \div 100)
                    ELSE SetZ(SetX(agent, (agent.vel[1] * 98) \div 100), (agent.vel[3] * 98) \div 100)
      IN IF ActionThrows(action) THEN Thrown(t1, world)
         ELSE Applied([t1 EXCEPT !.canJump = IF jumps THEN FALSE ELSE canJump0,
                                 !.lastJumpTime = IF jumps THEN clock ELSE task.lastJumpTime],
                      WithAgent(world, ClampAgent(moved, 4000)))

\* the block put at the agent's position plus an offset, at rest
BlockAt(block, agent, dx, dy) ==
    [block EXCEPT !.pos = Vec(agent.pos[1] + dx, IF agent.nan[2] THEN 0 ELSE agent.pos[2] + dy, agent.pos[3]),
                  !.vel = Vec(0, 0, 0),
                  !.nan = <<FALSE, agent.nan[2], FALSE>>]

\* Math.sqrt(dx * dx + dz * dz) < range
Within(dx, dz, range) ==
    /\ Abs(dx) < range
    /\ Abs(dz) < range
    /\ dx * dx + dz * dz < range * range

\* throwStrengths[strengthKey], first revision
throwStrengthsV1(actionStr) ==
    CASE actionStr = "throw_weak" -> 5000
      [] actionStr = "throw_medium" -> 10000
      [] OTHER -> 15000

\* throwStrengths[strengthKey], second revision
throwStrengthsV2(actionStr) ==
    CASE actionStr = "throw_weak" -> 4000
      [] actionStr = "throw_medium" -> 6000
      [] OTHER -> 8500

\* First revision: the block leaves from in front of the agent with velocity
\* (strength, strength * 0.5 * sqrt(gravity / 9.81), 0)
ThrowV1(block, agent, gravity, strength) ==
    LET at == BlockAt(block, agent, 800, 300)
        ok == gravity.t = "num" /\ gravity.n >= 0
        root == IF ok THEN Sqrt((gravity.n * 100000) \div 981) ELSE 0
    IN [at EXCEPT !.vel = Vec(strength, ((strength \div 2) * root) \div 1000, 0),
                  !.nan = <<FALSE, at.nan[2] \/ ~ok, FALSE>>]

\* Second revision: launch at 45 degrees, aimed in the plane at the basket
\* centre; a release point exactly at the centre gives the direction 0 / 0
ThrowV2(block, agent, actualBasketDistance, strength) ==
    LET at == BlockAt(block, agent, 600, 400)
        toBasketX == actualBasketDistance - at.pos[1]
        toBasketZ == 0 - at.pos[3]
        horizontalDist == Sqrt(toBasketX * toBasketX + toBasketZ * toBasketZ)
        vHorizontal == (strength * 7071) \div 10000
        vVertical == (strength * 7071) \div 10000
        none == toBasketX = 0 /\ toBasketZ = 0
    IN IF none
       THEN [at EXCEPT !.vel = Vec(0, vVertical, 0), !.nan = <<TRUE, at.nan[2], TRUE>>]
       ELSE [at EXCEPT !.vel = Vec((vHorizontal * toBasketX) \div horizontalDist,
                                   vVertical,
                                   (vHorizontal * toBasketZ) \div horizontalDist)]

\* params.durationScale || 1.0 (second revision only), in thousandths
Scale(cls, params) ==
    LET d == Get(params, "durationScale")
    IN IF cls = "ThrowBlockTaskV2" /\ d.t = "num" /\ d.n # 0 THEN d.n ELSE 1000

\* A faulty release, to try the guard of drop and throw against: it acts on
\* the block whether the block is held or not.
ReleasesUnheld(actionStr, holdingBlock) ==
    actionStr \in {"drop", "throw_weak", "throw_medium", "throw_strong"}

\* case 'drop' / 'throw_*': if (this.holdingBlock)
Releases(actionStr, holdingBlock) ==
    /\ actionStr \in {"drop", "throw_weak", "throw_medium", "throw_strong"}
    /\ holdingBlock

\* A faulty carry, to try the resting of the held block against: it moves
\* the block with the agent and leaves the block its velocity.
CarriedMoving(holdingBlock, block, agent) ==
    IF holdingBlock
    THEN [BlockAt(block, agent, 500, 200) EXCEPT !.vel = block.vel]
    ELSE block

\* if holding the block, move the block with the agent
Carried(holdingBlock, block, agent) ==
    IF holdingBlock THEN BlockAt(block, agent, 500, 200) ELSE block

ThrowBlockTaskApplyAction(task, world, config, action, params) ==
    IF ~hasBody(world, "agent") \/ ~hasBody(world, "block") THEN Applied(task, world)
    ELSE
      LET cls == task.cls
          agent == world.bodies["agent"]
          block == world.bodies["block"]
          isGrounded == Grounded(agent)
          t1 == [task EXCEPT !.isGrounded = isGrounded]
          actionStr == ActionStr(cls, action)
          speed == (3000 * Scale(cls, params)) \div 1000
          picks == /\ actionStr = "pick" /\ ~task.holdingBlock
                   /\ ~block.nan[1] /\ ~block.nan[3]
                   /\ Within(agent.pos[1] - block.pos[1], agent.pos[3] - block.pos[3],
                             pickupRange(cls))
          releases == Releases(actionStr, task.holdingBlock)
          holdingBlock == IF picks THEN TRUE ELSE IF releases THEN FALSE ELSE task.holdingBlock
          agent1 ==
            CASE actionStr = "forward" -> SetX(agent, speed)
              [] actionStr = "back" -> SetX(agent, 0 - speed)
              [] actionStr = "left" -> SetZ(agent, 0 - speed)
              [] actionStr = "right" -> SetZ(agent, speed)
              [] actionStr \in {"pick", "drop", "throw_weak", "throw_medium", "throw_strong"} -> agent
              [] OTHER -> SetZ(SetX(agent, (agent.vel[1] * 9) \div 10), (agent.vel[3] * 9) \div 10)
          block1 ==
            IF ~releases THEN block
            ELSE IF actionStr = "drop" THEN BlockAt(block, agent, 500, 0 - 500)
            ELSE IF cls = "ThrowBlockTask"
                 THEN ThrowV1(block, agent, Get(config, "gravity"), throwStrengthsV1(actionStr))
                 ELSE ThrowV2(block, agent, task.actualBasketDistance, throwStrengthsV2(actionStr))
          block2 == Carried(holdingBlock, block1, agent)
      IN IF ActionThrows(action) THEN Thrown(t1, world)
         ELSE Applied([t1 EXCEPT !.holdingBlock = holdingBlock],
                      WithBlock(WithAgent(world, ClampAgent(agent1, 4000)), block2))

\* task.applyAction(action, params)
applyAction(task, world, config, action, params, clock) ==
    IF task.cls = "GapCrossingTask" THEN GapCrossingTaskApplyAction(task, world, config, action)
    ELSE IF task.cls = "GapCrossingTaskV2"
         THEN GapCrossingTaskV2ApplyAction(task, world, config, action, clock)
    ELSE ThrowBlockTaskApplyAction(task, world, config, action, params)

----------------------------------------------------------------------------
(* checkTermination(), getReward(), getObservation() *)

\* a position inside a box of bounds; a NaN component is inside nothing
InZone(b, zone) ==
    /\ ~b.nan[1] /\ ~b.nan[2] /\ ~b.nan[3]
    /\ b.pos[1] >= zone.minX /\ b.pos[1] <= zone.maxX
    /\ b.pos[3] >= zone.minZ /\ b.pos[3] <= zone.maxZ
    /\ b.pos[2] >= zone.minY /\ b.pos[2] <= zone.maxY

Below(b, floor) == ~b.nan[2] /\ b.pos[2] < floor

\* inGoal: the agent inside the goal box
AgentInGoal(task, world) == InZone(world.bodies["agent"], task.goalZone)

\* Math.sqrt(vx^2 + vy^2 + vz^2) < 0.5
AtRest(b) ==
    /\ ~b.nan[1] /\ ~b.nan[2] /\ ~b.nan[3]
    /\ Abs(b.vel[1]) < 500 /\ Abs(b.vel[2]) < 500 /\ Abs(b.vel[3]) < 500
    /\ b.vel[1] * b.vel[1] + b.vel[2] * b.vel[2] + b.vel[3] * b.vel[3] < 500 * 500

\* inBasket && isStable: the block inside the basket bounds and slow
BlockInBasket(task, world) ==
    InZone(world.bodies["block"], task.basketBounds) /\ AtRest(world.bodies["block"])

Terminated(task, reason) == [task |-> task, done |-> TRUE, success |-> FALSE, reason |-> reason]

\* A faulty streak, to try the streak property against: a check that does
\* not comply leaves the counter as it is.
StreakSurvivesMiss(task, compliant, goal) ==
    IF compliant
    THEN LET t == [task EXCEPT !.successSteps = task.successSteps + 1]
         IN IF t.successSteps >= requiredSuccessSteps
            THEN [task |-> t, done |-> TRUE, success |-> TRUE, reason |-> goal]
            ELSE [task |-> t, done |-> FALSE, success |-> FALSE, reason |-> "ongoing"]
    ELSE [task |-> task, done |-> FALSE, success |-> FALSE, reason |-> "ongoing"]

\* the streak: one more compliant check, success at requiredSuccessSteps,
\* and back to zero on a check that does not comply
Streak(task, compliant, goal) ==
    IF compliant
    THEN LET t == [task EXCEPT !.successSteps = task.successSteps + 1]
         IN IF t.successSteps >= requiredSuccessSteps
            THEN [task |-> t, done |-> TRUE, success |-> TRUE, reason |-> goal]
            ELSE [task |-> t, done |-> FALSE, success |-> FALSE, reason |-> "ongoing"]
    ELSE [task |-> [task EXCEPT !.successSteps = 0],
          done |-> FALSE, success |-> FALSE, reason |-> "ongoing"]

GapCrossingTaskCheckTermination(task, world) ==
    IF ~hasBody(world, "agent") THEN Terminated(task, "agent_missing")
    ELSE LET agent == world.bodies["agent"]
         IN IF Below(agent, 0 - 5000) THEN Terminated(task, "fell")
            ELSE Streak(task, AgentInGoal(task, world), "reached_goal")

GapCrossingTaskV2CheckTermination(task, world) ==
    IF ~hasBody(world, "agent") THEN Terminated(task, "agent_missing")
    ELSE LET agent == world.bodies["agent"]
         IN IF Below(agent, 0 - 5000) THEN Terminated(task, "fell")
            ELSE IF Abs(agent.pos[3]) > 3000 \div 2 + 500 THEN Terminated(task, "fell_side")
            ELSE Streak(task, AgentInGoal(task, world), "reached_goal")

ThrowBlockTaskCheckTermination(task, world) ==
    IF ~hasBody(world, "block") \/ ~hasBody(world, "agent") THEN Terminated(task, "missing_objects")
    ELSE LET block == world.bodies["block"]
             agent == world.bodies["agent"]
         IN IF Below(block, 0 - 2000) THEN Terminated(task, "block_fell")
            ELSE IF Below(agent, 0 - 2000) THEN Terminated(task, "agent_fell")
            ELSE Streak(task, BlockInBasket(task, world), "block_in_basket")

\* task.checkTermination()
checkTermination(task, world) ==
    IF task.cls = "GapCrossingTask" THEN GapCrossingTaskCheckTermination(task, world)
    ELSE IF task.cls = "GapCrossingTaskV2" THEN GapCrossingTaskV2CheckTermination(task, world)
    ELSE ThrowBlockTaskCheckTermination(task, world)

\* a reward for every end of an episode
getRewardOnDone(done, success) == IF done THEN 1 ELSE 0

\* task.getReward(done, success): sparse
getReward(done, success) == IF success THEN 1 ELSE 0

\* A faulty hint, to try the choice against: the entry the search starts
\* with, whatever the distance.
OptimalThrowStrengthDefault(gravity, distance) == "medium"

\* the table entry whose range v^2 * sin(2 * 45 degrees) / g is nearest to
\* the distance; 'medium' when no error compares below Infinity
OptimalThrowStrength(gravity, distance) ==
    LET ok == gravity.t = "num" /\ gravity.n # 0
        err(v) == Abs((v * v) \div gravity.n - distance)
        weak == err(4000)
        medium == err(6000)
        strong == err(8500)
    IN IF ~ok THEN "medium"
       ELSE IF weak <= medium /\ weak <= strong THEN "weak"
       ELSE IF medium <= strong THEN "medium"
       ELSE "strong"

\* getBodyState() of an absent body is null, and getObservation reads
\* .position of it: a TypeError
ObservationThrows(task, world) ==
    \/ ~hasBody(world, "agent")
    \/ task.cls \notin GapClasses /\ ~hasBody(world, "block")

NullPosition == "Cannot read properties of null (reading 'position')"

getObservation(task, world, config) ==
    LET agentState == getBodyState(world, "agent")
        blockState == getBodyState(world, "block")
    IN IF task.cls \in GapClasses
       THEN [cls |-> task.cls,
             agentPosition |-> agentState.position,
             agentVelocity |-> agentState.velocity,
             agentNaN |-> agentState.nan,
             gapStart |-> task.gapStart,
             gapEnd |-> task.gapEnd,
             gapWidth |-> task.actualGapWidth,
             goalZone |-> task.goalZone,
             gravity |-> Get(config, "gravity"),
             isGrounded |-> task.isGrounded,
             actions |-> actions(task.cls)]
       ELSE [cls |-> task.cls,
             agentPosition |-> agentState.position,
             agentVelocity |-> agentState.velocity,
             agentNaN |-> agentState.nan,
             blockPosition |-> blockState.position,
             blockVelocity |-> blockState.velocity,
             blockNaN |-> blockState.nan,
             holdingBlock |-> task.holdingBlock,
             basketPosition |-> Vec(task.actualBasketDistance, task.basketHeight, 0),
             basketBounds |-> task.basketBounds,
             optimalThrowStrength |->
                 IF task.cls = "ThrowBlockTaskV2"
                 THEN OptimalThrowStrength(Get(config, "gravity"),
                          task.actualBasketDistance - agentState.position[1])
                 ELSE "",
             gravity |-> Get(config, "gravity"),
             isGrounded |-> task.isGrounded,
             actions |-> actions(task.cls)]

----------------------------------------------------------------------------
(* server.js: the registry and the handlers *)

DEFAULT_CONFIG ==
    [task |-> Str("gap"),
     gravity |-> Num(9810),
     seed |-> Num(42),
     maxSteps |-> Num(500),
     physicsTicksPerStep |-> Num(10),
     timeStep |-> Num(60)]

\* The key a value is used as: String(value)
PropertyKey(v) == IF v.t = "str" THEN v.s ELSE "undefined"

\* TASKS[taskName], a lookup in an object literal: its own four entries,
\* then what every object inherits.  Of the inherited values only
\* Object ('constructor') can be called with new.
TASKS(taskName) ==
    CASE taskName = "gap" -> [kind |-> "task", cls |-> "GapCrossingTask"]
      [] taskName = "throw" -> [kind |-> "task", cls |-> "ThrowBlockTask"]
      [] taskName = "gap_v2" -> [kind |-> "task", cls |-> "GapCrossingTaskV2"]
      [] taskName = "throw_v2" -> [kind |-> "task", cls |-> "ThrowBlockTaskV2"]
      [] taskName = "constructor" -> [kind |-> "Object", cls |-> ""]
      [] taskName \in {"toString", "valueOf", "hasOwnProperty", "__proto__"} ->
            [kind |-> "inherited", cls |-> ""]
      [] OTHER -> [kind |-> "undefined", cls |-> ""]

\* mergedConfig.taskVersion === 'v2' ? `${mergedConfig.task}_v2` : mergedConfig.task
TaskName(mergedConfig) ==
    IF Get(mergedConfig, "taskVersion") = Str("v2")
    THEN PropertyKey(mergedConfig.task) \o "_v2"
    ELSE PropertyKey(mergedConfig.task)

\* new Object(world, mergedConfig) is the world itself: an object with none
\* of the task methods
WorldAsTask == BaseTask("PhysicsWorld")

IsTask(task) == task.cls \in TaskClasses

\* createEnvironment once the configuration is merged: the registry it
\* leaves and either the initial observation or the error thrown.
\* object: the identity of the env object created.
Create(envs, sessionId, mergedConfig, object) ==
    LET world == PhysicsWorld(mergedConfig.gravity, mergedConfig.timeStep)
        taskName == TaskName(mergedConfig)
        TaskClass == TASKS(taskName)
        made == IF TaskClass.kind = "task" THEN NewTask(TaskClass.cls, world, mergedConfig)
                ELSE [task |-> WorldAsTask, world |-> world, seed |-> 0]
        config1 == IF TaskClass.kind = "task"
                   THEN [mergedConfig EXCEPT !.seed = Num(made.seed)]
                   ELSE mergedConfig
        env == [world |-> made.world,
                task |-> made.task,
                config |-> config1,
                stepCount |-> 0,
                done |-> FALSE,
                totalReward |-> 0,
                object |-> object]
        set == [k \in DOMAIN envs \cup {sessionId} |-> IF k = sessionId THEN env ELSE envs[k]]
    IN IF TaskClass.kind = "undefined"
       THEN [environments |-> envs,
             error |-> "Unknown task: " \o taskName
                       \o " (available: gap, throw, gap_v2, throw_v2)"]
       ELSE IF TaskClass.kind = "inherited"
       THEN [environments |-> envs, error |-> "TaskClass is not a constructor"]
       ELSE IF TaskClass.kind = "Object"
       THEN [environments |-> set, error |-> "task.getObservation is not a function"]
       ELSE [environments |-> set, error |-> "",
             observation |-> getObservation(made.task, made.world, config1)]

\* Faulty resets, to try the reset properties against: one seeds each
\* scene from a count shared by all sessions, one keeps the session an
\* identifier already has.
createEnvironmentSharedSeed(envs, sessionId, config, object) ==
    Create(envs, sessionId,
           Spread(Spread(DEFAULT_CONFIG, config), [seed |-> Num(object)]), object)

createEnvironmentKeepsSession(envs, sessionId, config, object) ==
    IF sessionId \in DOMAIN envs
    THEN [environments |-> envs, error |-> "",
          observation |-> getObservation(envs[sessionId].task, envs[sessionId].world,
                                         envs[sessionId].config)]
    ELSE Create(envs, sessionId, Spread(DEFAULT_CONFIG, config), object)

\* createEnvironment(sessionId, config): const mergedConfig =
\* { ...DEFAULT_CONFIG, ...config }, and the rest
createEnvironment(envs, sessionId, config, object) ==
    Create(envs, sessionId, Spread(DEFAULT_CONFIG, config), object)

\* req.body.sessionId || 'default'
SessionId(body) ==
    LET v == Get(body, "sessionId")
    IN IF v.t = "str" /\ v.s # "" THEN v.s ELSE "default"

FlatKeys == {"task", "taskVersion", "gravity", "seed", "landingZoneStart",
             "landingZoneEnd", "landingZoneWidth", "goalPlatformWidth"}

\* req.body.config || { task: req.body.task, ... }: the nested object, or an
\* object with the eight flat keys, each holding the body's value or undefined
RequestConfig(body) ==
    IF "config" \in DOMAIN body THEN body.config
    ELSE [k \in FlatKeys |-> Get(body, k)]

\* A faulty loop, to try the atomicity property against: the handler gives
\* way after the first tick and the rest of the step goes on with the tick
\* count it has.
TicksYield(task, world, config, action, params, clock, n) ==
    IF n <= 0 THEN Applied(task, world)
    ELSE CHOOSE r \in
            {IF a.threw THEN a ELSE Applied(a.task, WorldStep(a.world)) :
                a \in {applyAction(task, world, config, action, params, clock)}} : TRUE

\* Another faulty loop, to try the order of a step against: each iteration
\* advances the world first and applies the action after.
RECURSIVE TicksStepFirst(_, _, _, _, _, _, _)
TicksStepFirst(task, world, config, action, params, clock, n) ==
    IF n <= 0 THEN Applied(task, world)
    ELSE CHOOSE r \in
            {IF a.threw THEN a
             ELSE TicksStepFirst(a.task, a.world, config, action, params, clock, n - 1) :
                a \in {applyAction(task, WorldStep(world), config, action, params, clock)}} : TRUE

\* for (i = 0; i < physicsTicksPerStep; i++) { applyAction; world.step() }
\* A throw of applyAction ends the loop with what that call had changed.
RECURSIVE Ticks(_, _, _, _, _, _, _)
Ticks(task, world, config, action, params, clock, n) ==
    IF n <= 0 THEN Applied(task, world)
    ELSE CHOOSE r \in
            {IF a.threw THEN a
             ELSE Ticks(a.task, WorldStep(a.world), config, action, params, clock, n - 1) :
                a \in {applyAction(task, world, config, action, params, clock)}} : TRUE

\* the number of iterations of the loop: i < undefined is false
TickCount(config) ==
    LET t == Get(config, "physicsTicksPerStep")
    IN IF t.t = "num" THEN t.n ELSE 0

\* env.stepCount >= env.config.maxSteps
BudgetExhausted(stepCount, config) ==
    LET m == Get(config, "maxSteps")
    IN m.t = "num" /\ stepCount >= m.n

\* A faulty registry, to try the isolation property against: all sessions
\* step one world.
PutSharesWorld(envs, sessionId, env) ==
    [k \in DOMAIN envs |-> IF k = sessionId THEN env
                           ELSE [envs[k] EXCEPT !.world = env.world]]

Put(envs, sessionId, env) == [envs EXCEPT ![sessionId] = env]

\* A faulty result, to try the timeout property against: the budget is
\* looked at first, and a step that exhausts it is a timeout whatever the
\* task reports.
AfterTicksBudgetFirst(envs, sessionId, env, ticked, term) ==
    LET stepCount == env.stepCount + 1
        reward == getReward(term.done, term.success)
        exhausted == BudgetExhausted(stepCount, env.config)
        done == term.done \/ exhausted
        totalReward == env.totalReward + reward
        env1 == [env EXCEPT !.task = term.task,
                            !.world = ticked.world,
                            !.stepCount = stepCount,
                            !.done = done,
                            !.totalReward = totalReward]
    IN [environments |-> Put(envs, sessionId, env1),
        error |-> "",
        result |-> [observation |-> getObservation(term.task, ticked.world, env.config),
                    reward |-> reward,
                    done |-> done,
                    info |-> [step |-> stepCount,
                              success |-> term.success,
                              reason |-> IF exhausted THEN "timeout" ELSE term.reason,
                              totalReward |-> totalReward]]]

\* Another faulty result, to try the terminal reasons against: the reason is
\* always the task's, also when it is the budget that ends the episode.
AfterTicksTaskReason(envs, sessionId, env, ticked, term) ==
    LET stepCount == env.stepCount + 1
        reward == getReward(term.done, term.success)
        done == term.done \/ BudgetExhausted(stepCount, env.config)
        totalReward == env.totalReward + reward
        env1 == [env EXCEPT !.task = term.task,
                            !.world = ticked.world,
                            !.stepCount = stepCount,
                            !.done = done,
                            !.totalReward = totalReward]
    IN [environments |-> Put(envs, sessionId, env1),
        error |-> "",
        result |-> [observation |-> getObservation(term.task, ticked.world, env.config),
                    reward |-> reward,
                    done |-> done,
                    info |-> [step |-> stepCount,
                              success |-> term.success,
                              reason |-> term.reason,
                              totalReward |-> totalReward]]]

\* A third faulty result, to try the generator property against: every step
\* draws from the generator once more.
AfterTicksDrawsAgain(envs, sessionId, env, ticked, term) ==
    LET stepCount == env.stepCount + 1
        reward == getReward(term.done, term.success)
        done == term.done \/ BudgetExhausted(stepCount, env.config)
        totalReward == env.totalReward + reward
        env1 == [env EXCEPT !.task = term.task,
                            !.world = ticked.world,
                            !.config.seed = Num(NextSeed(env.config.seed)),
                            !.stepCount = stepCount,
                            !.done = done,
                            !.totalReward = totalReward]
    IN [environments |-> Put(envs, sessionId, env1),
        error |-> "",
        result |-> [observation |-> getObservation(term.task, ticked.world, env.config),
                    reward |-> reward,
                    done |-> done,
                    info |-> [step |-> stepCount,
                              success |-> term.success,
                              reason |-> IF done /\ ~term.done THEN "timeout" ELSE term.reason,
                              totalReward |-> totalReward]]]

\* The rest of stepEnvironment once the ticks are done: count the step, check
\* termination, reward, mark done, and assemble the result.
AfterTicks(envs, sessionId, env, ticked, term) ==
    LET stepCount == env.stepCount + 1
        reward == getReward(term.done, term.success)
        done == term.done \/ BudgetExhausted(stepCount, env.config)
        totalReward == env.totalReward + reward
        env1 == [env EXCEPT !.task = term.task,
                            !.world = ticked.world,
                            !.stepCount = stepCount,
                            !.done = done,
                            !.totalReward = totalReward]
    IN IF ObservationThrows(term.task, ticked.world)
       THEN [environments |-> Put(envs, sessionId, env1), error |-> NullPosition]
       ELSE
       [environments |-> Put(envs, sessionId, env1),
        error |-> "",
        result |-> [observation |-> getObservation(term.task, ticked.world, env.config),
                    reward |-> reward,
                    done |-> done,
                    info |-> [step |-> stepCount,
                              success |-> term.success,
                              reason |-> IF done /\ ~term.done THEN "timeout" ELSE term.reason,
                              totalReward |-> totalReward]]]

\* Faulty steps, to try the step properties against: a step on an absent
\* session that empties the registry, a step on a done session that counts,
\* and one that reopens the session.
NoEnvironmentForgetsAll(envs, sessionId) ==
    [environments |-> <<>>, error |-> "No environment for session: " \o sessionId]

AlreadyDoneCounts(envs, sessionId) ==
    LET env == envs[sessionId]
    IN [environments |-> [envs EXCEPT ![sessionId].stepCount = env.stepCount + 1],
        error |-> "",
        result |-> [observation |-> getObservation(env.task, env.world, env.config),
                    reward |-> 0,
                    done |-> TRUE,
                    info |-> [reason |-> "already_done"]]]

AlreadyDoneReopens(envs, sessionId) ==
    LET env == envs[sessionId]
    IN [environments |-> [envs EXCEPT ![sessionId].done = FALSE],
        error |-> "",
        result |-> [observation |-> getObservation(env.task, env.world, env.config),
                    reward |-> 0,
                    done |-> TRUE,
                    info |-> [reason |-> "already_done"]]]

\* if (!env) throw new Error(`No environment for session: ${sessionId}`)
NoEnvironment(envs, sessionId) ==
    [environments |-> envs, error |-> "No environment for session: " \o sessionId]

\* if (env.done) return { observation, reward: 0, done: true, info }
AlreadyDone(envs, sessionId) ==
    LET env == envs[sessionId]
    IN IF ObservationThrows(env.task, env.world)
       THEN [environments |-> envs, error |-> NullPosition]
       ELSE
       [environments |-> envs, error |-> "",
        result |-> [observation |-> getObservation(env.task, env.world, env.config),
                    reward |-> 0,
                    done |-> TRUE,
                    info |-> [reason |-> "already_done"]]]

\* stepEnvironment(sessionId, action, params): the registry it leaves and
\* either the result or the error thrown
stepEnvironment(envs, sessionId, action, params, clock) ==
    IF sessionId \notin DOMAIN envs THEN NoEnvironment(envs, sessionId)
    ELSE
      LET env == envs[sessionId]
      IN IF env.done THEN AlreadyDone(envs, sessionId)
         ELSE IF ~IsTask(env.task)
         THEN \* the world has no applyAction and no checkTermination
              IF TickCount(env.config) > 0
              THEN [environments |-> envs, error |-> "env.task.applyAction is not a function"]
              ELSE [environments |-> Put(envs, sessionId, [env EXCEPT !.stepCount = env.stepCount + 1]),
                    error |-> "env.task.checkTermination is not a function"]
         ELSE CHOOSE r \in
                {IF ticked.threw
                 THEN [environments |-> Put(envs, sessionId,
                                            [env EXCEPT !.task = ticked.task, !.world = ticked.world]),
                       error |-> "action.toLowerCase is not a function"]
                 ELSE CHOOSE out \in
                        {AfterTicks(envs, sessionId, env, ticked, term) :
                            term \in {checkTermination(ticked.task, ticked.world)}} : TRUE :
                    ticked \in {Ticks(env.task, env.world, env.config, action, params, clock,
                                      TickCount(env.config))}} : TRUE

----------------------------------------------------------------------------
(* The requests.  A workload names the request bodies the clients send and *)
(* bounds the run: resets served, steps per session, clock.                *)
(* request and sessionLog are history: the last request received, and per  *)
(* session what was asked of it and answered since it was created.         *)

NoRequest == [op |-> "none"]
NoResponse == [op |-> "none"]

Init ==
    /\ environments = <<>>
    /\ now = 1000
    /\ pending = <<>>
    /\ request = NoRequest
    /\ response = NoResponse
    /\ sessionLog = <<>>
    /\ resets = 0

\* the success predicate of the session's task on its present world
SuccessPredicate(env) ==
    IF env.task.cls \in GapClasses THEN AgentInGoal(env.task, env.world)
    ELSE BlockInBasket(env.task, env.world)

\* app.post('/reset')
Reset(w) ==
    \E body \in w.resetBodies :
      \E r \in {createEnvironment(environments, SessionId(body), RequestConfig(body), resets + 1)} :
        LET sessionId == SessionId(body)
            resp == IF r.error = ""
                    THEN [op |-> "reset", sessionId |-> sessionId, status |-> 200,
                          success |-> TRUE, observation |-> r.observation]
                    ELSE [op |-> "reset", sessionId |-> sessionId, status |-> 400,
                          success |-> FALSE, error |-> r.error]
            created == sessionId \in DOMAIN r.environments
                       /\ r.environments[sessionId].object = resets + 1
            replaced == IF sessionId \in DOMAIN environments
                        THEN [stepCount |-> environments[sessionId].stepCount,
                              done |-> environments[sessionId].done]
                        ELSE [stepCount |-> 0, done |-> FALSE]
        IN /\ resets < w.maxResets
           /\ resets' = resets + 1
           /\ request' = [op |-> "reset", body |-> body]
           /\ environments' = r.environments
           /\ response' = resp
           /\ sessionLog' = IF created
                            THEN [k \in DOMAIN sessionLog \cup {sessionId} |->
                                    IF k = sessionId
                                    THEN [config |-> RequestConfig(body), actions |-> <<>>,
                                          checks |-> <<>>, first |-> resp, last |-> resp,
                                          replaced |-> replaced]
                                    ELSE sessionLog[k]]
                            ELSE sessionLog
           /\ UNCHANGED <<now, pending>>

\* app.post('/step'): a missing action is refused before stepEnvironment
StepRequest(envs, body, clock) ==
    IF Get(body, "action").t = "undef"
    THEN [environments |-> envs, error |-> "Action is required"]
    ELSE stepEnvironment(envs, SessionId(body), Get(body, "action"), body, clock)

\* the handler of one step request; maxSteps bounds the steps counted for a
\* session in a run
PostStep(body, maxSteps) ==
      \E r \in {StepRequest(environments, body, now)} :
        LET sessionId == SessionId(body)
            live == sessionId \in DOMAIN environments
            resp == IF r.error # ""
                    THEN [op |-> "step", sessionId |-> sessionId, status |-> 400,
                          success |-> FALSE, error |-> r.error]
                    ELSE [op |-> "step", sessionId |-> sessionId, status |-> 200,
                          success |-> TRUE, observation |-> r.result.observation,
                          reward |-> r.result.reward, done |-> r.result.done,
                          info |-> r.result.info]
            stepped == resp.success /\ ~environments[sessionId].done
        IN /\ live => environments[sessionId].stepCount < maxSteps
                      \/ environments[sessionId].done
           /\ request' = [op |-> "step", body |-> body]
           /\ environments' = r.environments
           /\ response' = resp
           /\ sessionLog' = IF stepped
                            THEN [sessionLog EXCEPT
                                    ![sessionId].actions =
                                        Append(@, [action |-> Get(body, "action"),
                                                   durationScale |-> Get(body, "durationScale")]),
                                    ![sessionId].checks =
                                        Append(@, SuccessPredicate(r.environments[sessionId])),
                                    ![sessionId].last = resp]
                            ELSE sessionLog
           /\ UNCHANGED <<now, resets>>

\* a step request that is served as it arrives
Step(w) ==
    \E body \in w.stepBodies :
        /\ pending = <<>>
        /\ PostStep(body, w.maxSteps)
        /\ UNCHANGED pending

\* a step request arrives while the process may be busy: it waits its turn
Arrive(w) ==
    \E body \in w.stepBodies :
        /\ Len(pending) < w.maxPending
        /\ pending' = Append(pending, body)
        /\ UNCHANGED <<environments, now, request, response, sessionLog, resets>>

\* the process takes the request that has waited longest and runs its
\* handler to the end
Serve(w) ==
    /\ pending # <<>>
    /\ PostStep(Head(pending), w.maxSteps)
    /\ pending' = Tail(pending)

\* Object.keys(TASKS)
TaskKeys == <<"gap", "throw", "gap_v2", "throw_v2">>

\* the actions object of the info response
InfoActions ==
    [gap |-> <<"forward", "back", "left", "right", "jump", "idle">>,
     throw |-> <<"forward", "back", "left", "right", "pick", "drop",
                 "throw_weak", "throw_medium", "throw_strong", "idle">>]

\* app.get('/info'): reads nothing of the registry and changes nothing
Info ==
    /\ request' = [op |-> "info"]
    /\ response' = [op |-> "info", status |-> 200, tasks |-> TaskKeys,
                    actions |-> InfoActions, defaultConfig |-> DEFAULT_CONFIG]
    /\ UNCHANGED <<environments, now, pending, sessionLog, resets>>

\* PhysicsWorld.removeBody(name) on the world of a session.  No handler of
\* the server calls it; it is the world's own operation, and the state it
\* leaves is the one the missing-body branches of the tasks are written for.
removeBody(world, name) ==
    [world EXCEPT !.bodies = [k \in DOMAIN world.bodies \ {name} |-> world.bodies[k]],
                  !.engine = world.engine - 1]

RemoveBody(w) ==
    \E sessionId \in DOMAIN environments :
      \E name \in w.removable :
        /\ hasBody(environments[sessionId].world, name)
        /\ environments' = [environments EXCEPT
                               ![sessionId].world = removeBody(environments[sessionId].world, name)]
        /\ UNCHANGED <<now, pending, request, response, sessionLog, resets>>

\* task.setup() called again on the task of a session.  No handler of the
\* server does so: the constructor is its only caller.
SetupAgain(w) ==
    \E sessionId \in DOMAIN environments :
      LET env == environments[sessionId]
      IN /\ IsTask(env.task)
         /\ env.world.engine < w.maxBodies
         /\ \E r \in {setup(env.task, env.world, env.config)} :
               environments' = [environments EXCEPT ![sessionId].task = r.task,
                                                    ![sessionId].world = r.world,
                                                    ![sessionId].config.seed = Num(r.seed)]
         /\ request' = [op |-> "setup", body |-> [sessionId |-> Str(sessionId)]]
         /\ UNCHANGED <<now, pending, response, sessionLog, resets>>

\* time passes between requests
Advance(w) ==
    /\ now < w.maxNow
    /\ now' = now + w.tick
    /\ UNCHANGED <<environments, pending, request, response, sessionLog, resets>>

----------------------------------------------------------------------------
(* Request bodies *)

Nested(sessionId, config) == [sessionId |-> Str(sessionId), config |-> config]
Flat(sessionId, fields) == Spread([sessionId |-> Str(sessionId)], fields)
Do(sessionId, action) == [sessionId |-> Str(sessionId), action |-> action]

EmptyObject == <<>>

\* a coarse, short episode of the second traversal revision: two ticks of a
\* quarter of a second per step
ShortGapV2(seed, maxSteps) ==
    [task |-> Str("gap_v2"), seed |-> Num(seed), maxSteps |-> Num(maxSteps),
     physicsTicksPerStep |-> Num(2), timeStep |-> Num(4)]

----------------------------------------------------------------------------
(* Workload 1, the registry: two clients, every request shape, resets that *)
(* fail, parameters out of range, steps on absent sessions.                *)

MaxResets == 2
MaxSteps == 1
MaxAdvances == 1

Registry ==
    [resetBodies |->
        {Nested("a", EmptyObject),
         Nested("a", [task |-> Str("nope")]),
         Nested("a", [task |-> Str("constructor"), physicsTicksPerStep |-> Num(0)]),
         Nested("a", [gravity |-> Num(0 - 9810), maxSteps |-> Num(0)]),
         Flat("b", [task |-> Str("throw")]),
         Flat("b", [task |-> Str("throw"), taskVersion |-> Str("v2"),
                    gravity |-> Num(9810), seed |-> Num(42)])},
     stepBodies |->
        {Do("a", Str("forward")), Do("a", Str("jump")),
         [sessionId |-> Str("a")],
         Do("b", Str("Pick")),
         Do("b", [t |-> "bool", n |-> 1, s |-> ""]),
         [action |-> Str("idle")]},
     maxResets |-> MaxResets,
     maxSteps |-> MaxSteps,
     tick |-> 250,
     maxNow |-> 1000 + 250 * MaxAdvances]

ResetRegistry == Reset(Registry)
StepRegistry == Step(Registry)
AdvanceRegistry == Advance(Registry)

Next == ResetRegistry \/ StepRegistry \/ AdvanceRegistry \/ Info

Spec == Init /\ [][Next]_vars

----------------------------------------------------------------------------
(* Workload 2, the episode: one client runs one task to its end.  Each     *)
(* scene is built so that the success predicate holds from the start: the  *)
(* goal box around the agent, the basket around the block.                 *)

EpisodeResets == 1
EpisodeSteps == 6
ShortEpisodeSteps == 2

\* platform B on platform A: the goal box spans x in -2 .. 2
GapScene ==
    [task |-> Str("gap"), gapWidth |-> Num(0 - 5000), gapVariance |-> Num(0),
     maxSteps |-> Num(EpisodeSteps), physicsTicksPerStep |-> Num(2), timeStep |-> Num(2)]

\* the same with a budget that runs out before the goal can be reached
ShortGapScene == [GapScene EXCEPT !.maxSteps = Num(ShortEpisodeSteps)]

\* a landing zone given by its ends, x in -2 .. 0; ticks of half a second
GapV2Scene(ticks) ==
    [task |-> Str("gap"), taskVersion |-> Str("v2"), seed |-> Num(7),
     landingZoneStart |-> Num(0 - 2000), landingZoneEnd |-> Num(0),
     maxSteps |-> Num(EpisodeSteps), physicsTicksPerStep |-> Num(ticks), timeStep |-> Num(2)]

\* the basket on the platform, under the block
ThrowScene ==
    [task |-> Str("throw"), basketDistance |-> Num(0 - 1000),
     basketDistanceVariance |-> Num(0), basketHeight |-> Num(0),
     maxSteps |-> Num(EpisodeSteps), physicsTicksPerStep |-> Num(3), timeStep |-> Num(20)]

ThrowV2Scene ==
    [task |-> Str("throw_v2"), basketDistance |-> Num(0 - 350),
     basketDistanceVariance |-> Num(0), basketHeight |-> Num(0),
     maxSteps |-> Num(EpisodeSteps), physicsTicksPerStep |-> Num(3), timeStep |-> Num(20)]

Episode ==
    [resetBodies |-> {Nested("e", GapScene), Nested("e", ShortGapScene),
                      Nested("e", GapV2Scene(1)), Nested("e", GapV2Scene(2)),
                      Nested("e", ThrowScene), Nested("e", ThrowV2Scene)},
     stepBodies |-> {Do("e", Str("idle")), Do("e", Str("left")), Do("e", Str("pick"))},
     maxResets |-> EpisodeResets,
     maxSteps |-> EpisodeSteps]

ResetEpisode == Reset(Episode)
StepEpisode == Step(Episode)

\* none of these actions reads the clock: the episode is the same whenever
\* its requests arrive
NextEpisode == ResetEpisode \/ StepEpisode

SpecEpisode == Init /\ [][NextEpisode]_vars

----------------------------------------------------------------------------
(* Workload 3, the pair: two clients ask for the same scene, or for scenes *)
(* of two seeds, and send the same action, each at its own times.  A jump  *)
(* is in the air for one step and lands in the next.                       *)

PairResets == 2
PairSteps == 3
PairAdvances == 1

Pair ==
    [resetBodies |-> {Nested("p", ShortGapV2(7, PairSteps)),
                      Nested("q", ShortGapV2(7, PairSteps)),
                      Nested("q", ShortGapV2(8, PairSteps))},
     stepBodies |-> {Do("p", Str("jump")), Do("q", Str("jump"))},
     maxResets |-> PairResets,
     maxSteps |-> PairSteps,
     tick |-> 750,
     maxNow |-> 1000 + 750 * PairAdvances]

ResetPair == Reset(Pair)
StepPair == Step(Pair)
AdvancePair == Advance(Pair)

NextPair == ResetPair \/ StepPair \/ AdvancePair

SpecPair == Init /\ [][NextPair]_vars

----------------------------------------------------------------------------
(* Workload 4, the load: two clients, each with its own session of the     *)
(* same scene, send their steps without waiting for each other; the        *)
(* process serves them one at a time in the order they came.               *)

LoadResets == 2
LoadSteps == 2
MaxPending == 2

Load ==
    [resetBodies |-> {Nested("p", ShortGapV2(7, LoadSteps)),
                      Nested("q", ShortGapV2(7, LoadSteps))},
     stepBodies |-> {Do("p", Str("forward")), Do("p", Str("jump")),
                     Do("q", Str("forward")), Do("q", Str("jump"))},
     maxResets |-> LoadResets,
     maxSteps |-> LoadSteps,
     maxPending |-> MaxPending]

ResetLoad == Reset(Load)
ArriveLoad == Arrive(Load)
ServeLoad == Serve(Load)

NextLoad == ResetLoad \/ ArriveLoad \/ ServeLoad

SpecLoad == Init /\ [][NextLoad]_vars

----------------------------------------------------------------------------
(* Workload 6, the pickup: one client walks the agent of a manipulation    *)
(* session away from the block and back and asks for the block, two ticks  *)
(* of a tenth of a second per step.                                        *)

PickupResets == 1
PickupSteps == 5

PickupScene(task) ==
    [task |-> Str(task), maxSteps |-> Num(PickupSteps),
     physicsTicksPerStep |-> Num(2), timeStep |-> Num(10)]

Pickup ==
    [resetBodies |-> {Nested("e", PickupScene("throw")), Nested("e", PickupScene("throw_v2"))},
     stepBodies |-> {Do("e", Str("back")), Do("e", Str("forward")), Do("e", Str("pick"))},
     maxResets |-> PickupResets,
     maxSteps |-> PickupSteps]

ResetPickup == Reset(Pickup)
StepPickup == Step(Pickup)

NextPickup == ResetPickup \/ StepPickup

SpecPickup == Init /\ [][NextPickup]_vars

----------------------------------------------------------------------------
(* Workload 7, the rebuild: one client steps a session of each task with   *)
(* its default scene, and setup() is run again on it.                      *)

RebuildResets == 1
RebuildSteps == 2
MaxBodies == 20

RebuildScene(task) ==
    [task |-> Str(task), maxSteps |-> Num(RebuildSteps),
     physicsTicksPerStep |-> Num(2), timeStep |-> Num(10)]

Rebuild ==
    [resetBodies |-> {Nested("e", RebuildScene("gap")), Nested("e", RebuildScene("gap_v2")),
                      Nested("e", RebuildScene("throw")), Nested("e", RebuildScene("throw_v2"))},
     stepBodies |-> {Do("e", Str("forward")), Do("e", Str("pick"))},
     maxResets |-> RebuildResets,
     maxSteps |-> RebuildSteps,
     maxBodies |-> MaxBodies]

ResetRebuild == Reset(Rebuild)
StepRebuild == Step(Rebuild)
SetupAgainRebuild == SetupAgain(Rebuild)

NextRebuild == ResetRebuild \/ StepRebuild \/ SetupAgainRebuild

SpecRebuild == Init /\ [][NextRebuild]_vars

----------------------------------------------------------------------------
(* Workload 8, the crossing: one client walks and jumps the agent of a     *)
(* traversal session towards a platform half a metre away, at a twentieth  *)
(* of the standard gravity, one tick of a quarter of a second per step.    *)

CrossingResets == 1
CrossingSteps == 9

CrossingScene(task) ==
    [task |-> Str(task), gravity |-> Num(500), gapWidth |-> Num(500), gapVariance |-> Num(0),
     maxSteps |-> Num(CrossingSteps), physicsTicksPerStep |-> Num(1), timeStep |-> Num(4)]

Crossing ==
    [resetBodies |-> {Nested("e", CrossingScene("gap")), Nested("e", CrossingScene("gap_v2"))},
     stepBodies |-> {Do("e", Str("forward")), Do("e", Str("back")), Do("e", Str("jump"))},
     maxResets |-> CrossingResets,
     maxSteps |-> CrossingSteps]

ResetCrossing == Reset(Crossing)
StepCrossing == Step(Crossing)

NextCrossing == ResetCrossing \/ StepCrossing

SpecCrossing == Init /\ [][NextCrossing]_vars

----------------------------------------------------------------------------
(* Workload 5, the removal: one client steps a session of each task while  *)
(* a body the task expects is taken out of its world.                      *)

RemovalResets == 2
RemovalSteps == 3

Removal ==
    [resetBodies |-> {Nested("e", GapScene), Nested("e", GapV2Scene(1)),
                      Nested("e", ThrowScene), Nested("e", ThrowV2Scene)},
     stepBodies |-> {Do("e", Str("idle")), Do("e", Str("forward")), Do("e", Str("pick"))},
     removable |-> {"agent", "block"},
     maxResets |-> RemovalResets,
     maxSteps |-> RemovalSteps]

ResetRemoval == Reset(Removal)
StepRemoval == Step(Removal)
RemoveBodyRemoval == RemoveBody(Removal)

NextRemoval == ResetRemoval \/ StepRemoval \/ RemoveBodyRemoval

SpecRemoval == Init /\ [][NextRemoval]_vars

----------------------------------------------------------------------------
(* Workload 9, the vocabulary: one client steps a session of each task     *)
(* with actions given by their index in the task's action list and by      *)
(* names in capital letters, one tick per step; the manipulation tasks     *)
(* with two ticks per step as well.                                         *)

VocabularyResets == 1
VocabularySteps == 2

VocabularyScene(task, ticks) ==
    [task |-> Str(task), maxSteps |-> Num(VocabularySteps),
     physicsTicksPerStep |-> Num(ticks), timeStep |-> Num(4)]

\* the second manipulation revision with the basket centre 0.6 in front of
\* the agent's starting place, where a throw releases the block
BasketAtReleaseScene ==
    Spread(VocabularyScene("throw_v2", 1),
           [basketDistance |-> Num(0 - 900), basketDistanceVariance |-> Num(0)])

Vocabulary ==
    [resetBodies |-> {Nested("e", VocabularyScene(task, 1)) :
                        task \in {"gap", "throw", "gap_v2", "throw_v2"}}
                     \cup {Nested("e", VocabularyScene(task, 2)) : task \in {"throw", "throw_v2"}}
                     \cup {Nested("e", BasketAtReleaseScene)},
     stepBodies |-> {Do("e", Num(0)), Do("e", Num(1)), Do("e", Num(4)), Do("e", Num(7)),
                     Do("e", Str("JUMP")), Do("e", Str("Pick"))},
     maxResets |-> VocabularyResets,
     maxSteps |-> VocabularySteps]

ResetVocabulary == Reset(Vocabulary)
StepVocabulary == Step(Vocabulary)

NextVocabulary == ResetVocabulary \/ StepVocabulary

SpecVocabulary == Init /\ [][NextVocabulary]_vars

-----------------------------------------------------------------------------
(* Workload 10, the hop: one client makes the agent of the second          *)
(* traversal revision jump, with three ticks of a quarter of a second per  *)
(* step: a jump that fires on the first tick of a step lands on the first  *)
(* tick of the next step.  Time passes between the requests.               *)

HopResets == 1
HopSteps == 3
HopAdvances == 2

HopScene(seed) ==
    [task |-> Str("gap_v2"), seed |-> Num(seed), maxSteps |-> Num(HopSteps),
     physicsTicksPerStep |-> Num(3), timeStep |-> Num(4)]

Hop ==
    [resetBodies |-> {Nested("e", HopScene(7)), Nested("e", HopScene(8))},
     stepBodies |-> {Do("e", Str("jump")), Do("e", Str("idle"))},
     maxResets |-> HopResets,
     maxSteps |-> HopSteps,
     tick |-> 300,
     maxNow |-> 1000 + 300 * HopAdvances]

ResetHop == Reset(Hop)
StepHop == Step(Hop)
AdvanceHop == Advance(Hop)

NextHop == ResetHop \/ StepHop \/ AdvanceHop

SpecHop == Init /\ [][NextHop]_vars

-----------------------------------------------------------------------------
(* Workload 11, the seeds: one client resets a session of each task with   *)
(* seeds from both ends of the 32-bit range, below and above the seed      *)
(* whose product with the multiplier first exceeds 2^53, and with no       *)
(* variance, the default variance and a variance of 0.3.                    *)

SeedsResets == 1

SeedValues ==
    {0, 1, 42, 8162278, 8162279, 8162280, 1116302080, MaxInt31,
     0 - 1, 0 - 42, 0 - MaxInt31}

SeedVariances == {0, 300}

SeedScene(task, seed) == [task |-> Str(task), seed |-> Num(seed)]

VarianceScene(task, seed, variance) ==
    Spread(SeedScene(task, seed),
           IF task \in {"gap", "gap_v2"} THEN [gapVariance |-> Num(variance)]
           ELSE [basketDistanceVariance |-> Num(variance)])

Seeds ==
    [resetBodies |-> {Nested("e", SeedScene(task, seed)) :
                        task \in {"gap", "throw", "gap_v2", "throw_v2"}, seed \in SeedValues}
                     \cup {Nested("e", VarianceScene(task, seed, variance)) :
                             task \in {"gap", "throw", "gap_v2", "throw_v2"},
                             seed \in SeedValues, variance \in SeedVariances},
     maxResets |-> SeedsResets]

ResetSeeds == Reset(Seeds)

NextSeeds == ResetSeeds

SpecSeeds == Init /\ [][NextSeeds]_vars

-----------------------------------------------------------------------------
(* Workload 12, the leap: one client makes the agent of either traversal   *)
(* revision jump, by name and by index, three ticks of a quarter of a      *)
(* second per step, and asks for a jump again while the agent is in the    *)
(* air.  Time passes between the requests.                                  *)

LeapResets == 1
LeapSteps == 3
LeapAdvances == 2

LeapScene(task) ==
    [task |-> Str(task), maxSteps |-> Num(LeapSteps),
     physicsTicksPerStep |-> Num(3), timeStep |-> Num(4)]

Leap ==
    [resetBodies |-> {Nested("e", LeapScene("gap")), Nested("e", LeapScene("gap_v2"))},
     stepBodies |-> {Do("e", Str("jump")), Do("e", Num(4)), Do("e", Str("idle")),
                     Do("e", Str("forward"))},
     maxResets |-> LeapResets,
     maxSteps |-> LeapSteps,
     tick |-> 400,
     maxNow |-> 1000 + 400 * LeapAdvances]

ResetLeap == Reset(Leap)
StepLeap == Step(Leap)
AdvanceLeap == Advance(Leap)

NextLeap == ResetLeap \/ StepLeap \/ AdvanceLeap

SpecLeap == Init /\ [][NextLeap]_vars

-----------------------------------------------------------------------------
(* Properties.  What a transition was is read from what it changed: a      *)
(* reset counts one more reset, a step changes neither clock nor count     *)
(* and adds nothing to the queue.                                          *)

ResetTaken == resets' = resets + 1
StepTaken ==
    /\ now' = now /\ resets' = resets /\ request'.op = "step"
    /\ Len(pending') <= Len(pending)

\* the request carries an action: it reaches stepEnvironment
HasAction(body) == Get(body, "action").t # "undef"

\* the session created by the last request
Created(sessionId) ==
    sessionId \in DOMAIN environments /\ environments[sessionId].object = resets

\* the merged configuration a reset body asks for
Requested(body) == Spread(DEFAULT_CONFIG, RequestConfig(body))

\* the number of TRUE at the end of a sequence of checks
RECURSIVE Trailing(_)
Trailing(checks) ==
    IF checks = <<>> \/ ~checks[Len(checks)] THEN 0
    ELSE 1 + Trailing(SubSeq(checks, 1, Len(checks) - 1))

FailureReasons == {"fell", "fell_side", "block_fell", "agent_fell",
                   "agent_missing", "missing_objects"}

\* the last step of the session ended it in failure
Failed(log) == log.last.op = "step" /\ log.last.info.reason \in FailureReasons

\* the part of a step response a trajectory is made of
Outcome(resp) ==
    IF resp.op = "step"
    THEN [observation |-> resp.observation, reward |-> resp.reward,
          done |-> resp.done, reason |-> resp.info.reason]
    ELSE [observation |-> resp.observation]

----------------------------------------------------------------------------
\* C1: a step on a session that is already done answers reward 0, done and
\* the reason 'already_done', with the observation of the step that ended
\* the episode, and changes nothing in the registry: no action applied, no
\* tick, step counter, total reward, task and world as they were -- however
\* many times it is repeated.
C1_DoneStepIsNoOp ==
    [][LET sessionId == SessionId(request'.body)
       IN (/\ StepTaken
           /\ HasAction(request'.body)
           /\ sessionId \in DOMAIN environments
           /\ environments[sessionId].done)
          => /\ response' = [op |-> "step", sessionId |-> sessionId, status |-> 200,
                             success |-> TRUE,
                             observation |-> sessionLog[sessionId].last.observation,
                             reward |-> 0, done |-> TRUE,
                             info |-> [reason |-> "already_done"]]
             /\ environments' = environments
             /\ sessionLog' = sessionLog]_vars

\* a session that reached its goal is asked to move, twice over
C1_Witness ==
    /\ request.op = "step"
    /\ request.body.action = Str("left")
    /\ response.op = "step"
    /\ response.success
    /\ response.info.reason = "already_done"
    /\ sessionLog["e"].last.info.reason = "reached_goal"
    /\ sessionLog["e"].last.reward = 1

\* C2: a session goes from not done to done and never back: a session that
\* is done stays done through every request but a reset of its identifier,
\* its last counted step answered done exactly when it is done, and every
\* later step on it answers done.
C2_DoneIsMonotonic ==
    /\ [](\A sessionId \in DOMAIN sessionLog :
            (sessionLog[sessionId].last.op = "step" /\ sessionLog[sessionId].last.done)
            <=> environments[sessionId].done)
    /\ [][/\ \A sessionId \in DOMAIN environments :
                (/\ environments[sessionId].done
                 /\ ~(ResetTaken /\ SessionId(request'.body) = sessionId))
                => (sessionId \in DOMAIN environments' /\ environments'[sessionId].done)
          /\ LET sessionId == SessionId(request'.body)
             IN (/\ StepTaken
                 /\ HasAction(request'.body)
                 /\ sessionId \in DOMAIN environments
                 /\ environments[sessionId].done)
                => (response'.success /\ response'.done)]_vars

\* a session that ran out of steps is stepped again
C2_Witness ==
    /\ request.op = "step"
    /\ response.op = "step"
    /\ response.success
    /\ response.info.reason = "already_done"
    /\ sessionLog["e"].last.info.reason = "timeout"
    /\ environments["e"].stepCount = EpisodeSteps

\* C3 as stated: in every task the streak counter stays in 0 .. 5, success
\* is reported only after five checks in a row that found the success
\* predicate true, and every step whose check finds it false leaves the
\* counter at zero.
C3_EveryMissResets ==
    \A sessionId \in DOMAIN sessionLog :
        IsTask(environments[sessionId].task) =>
            LET log == sessionLog[sessionId]
                streak == environments[sessionId].task.successSteps
                n == Len(log.checks)
            IN /\ streak \in 0 .. requiredSuccessSteps
               /\ (log.last.op = "step" /\ log.last.info.success)
                      => Trailing(log.checks) >= requiredSuccessSteps
               /\ (n > 0 /\ ~log.checks[n]) => streak = 0

\* C3, amended: in every task the streak counter stays in 0 .. 5, success is
\* reported only after five checks in a row that found the success predicate
\* true, and after every step that did not end the episode in failure the
\* counter is the number of checks in a row, up to the last, that found the
\* predicate true: zero after a miss.  (A step that ends the episode in
\* failure returns before the counter is touched.)
C3_StreakCountsConsecutive ==
    \A sessionId \in DOMAIN sessionLog :
        IsTask(environments[sessionId].task) =>
            LET log == sessionLog[sessionId]
                streak == environments[sessionId].task.successSteps
            IN /\ streak \in 0 .. requiredSuccessSteps
               /\ (log.last.op = "step" /\ log.last.info.success)
                      => Trailing(log.checks) >= requiredSuccessSteps
               /\ ~Failed(log) => streak = Trailing(log.checks)

\* four checks in a row found the predicate true, the fifth did not, and
\* the episode goes on with the counter at zero
C3_Witness ==
    /\ "e" \in DOMAIN sessionLog
    /\ sessionLog["e"].checks = <<TRUE, TRUE, TRUE, TRUE, FALSE>>
    /\ environments["e"].task.successSteps = 0
    /\ ~environments["e"].done

\* C4 as stated: two sessions given the same configuration and the same
\* actions have had the same answers: the same initial observation, and the
\* same observation, reward, done and reason at their last step.
C4_SameInputsSameTrajectory ==
    \A s1, s2 \in DOMAIN sessionLog :
        (/\ sessionLog[s1].config = sessionLog[s2].config
         /\ sessionLog[s1].actions = sessionLog[s2].actions)
        => Outcome(sessionLog[s1].last) = Outcome(sessionLog[s2].last)

\* C5: two resets that supply the same configuration, seed included, are
\* answered with the same initial observation, whatever the identifiers and
\* whatever was created, stepped or finished before.
C5_SameSeedSameStart ==
    \A s1, s2 \in DOMAIN sessionLog :
        (/\ sessionLog[s1].config = sessionLog[s2].config
         /\ sessionLog[s1].first.success
         /\ sessionLog[s2].first.success)
        => sessionLog[s1].first.observation = sessionLog[s2].first.observation

\* q is reset with p's configuration after p ran to its end
C5_Witness ==
    /\ request.op = "reset"
    /\ request.body.sessionId = Str("q")
    /\ response.success
    /\ "p" \in DOMAIN environments
    /\ environments["p"].done
    /\ sessionLog["p"].config = sessionLog["q"].config

\* C6: a step on an identifier without a live session fails, with the
\* session-not-found error when it carries an action, and leaves the
\* registry as it was: no session created, none changed.
C6_StepOnAbsentSession ==
    [][LET sessionId == SessionId(request'.body)
       IN (StepTaken /\ sessionId \notin DOMAIN environments)
          => /\ ~response'.success
             /\ HasAction(request'.body)
                    => response'.error = "No environment for session: " \o sessionId
             /\ environments' = environments
             /\ sessionLog' = sessionLog]_vars

\* the step on 'default' is refused while another session is live
C6_Witness ==
    /\ request.op = "step"
    /\ SessionId(request.body) = "default"
    /\ response.op = "step"
    /\ ~response.success
    /\ response.error = "No environment for session: default"
    /\ DOMAIN environments # {}

\* C7 as stated: a reset that asks for a task that is not one of the four
\* registered fails, and the registry holds no session created by it.
C7_UnknownTaskCreatesNothing ==
    (request.op = "reset"
        /\ TASKS(TaskName(Requested(request.body))).kind # "task")
    => (~response.success /\ ~Created(SessionId(request.body)))

InvalidNumeric(mergedConfig) ==
    \E k \in {"gravity", "maxSteps", "physicsTicksPerStep"} :
        Get(mergedConfig, k).t = "num" /\ Get(mergedConfig, k).n <= 0

\* C9 as stated: a reset whose configuration holds a gravity, a step budget
\* or a tick count that is not above zero is refused, and no session is
\* created by it.
C9_InvalidNumericRejected ==
    (request.op = "reset" /\ InvalidNumeric(Requested(request.body)))
    => (~response.success /\ ~Created(SessionId(request.body)))

\* the field is among those the request gives, in either shape
Supplies(body, field) ==
    IF "config" \in DOMAIN body THEN field \in DOMAIN body.config
    ELSE field \in DOMAIN body

\* C10 as stated: in the session a reset creates, every default field the
\* request did not supply holds its default value, in both request shapes
\* (the seed as its generator leaves it after setup's one draw).
C10_OmittedFieldsTakeDefaults ==
    LET sessionId == SessionId(request.body)
    IN (request.op = "reset" /\ response.success)
       => \A field \in DOMAIN DEFAULT_CONFIG :
            ~Supplies(request.body, field)
            => Get(environments[sessionId].config, field) =
                  IF field = "seed" THEN Num(NextSeed(DEFAULT_CONFIG.seed))
                  ELSE DEFAULT_CONFIG[field]


----------------------------------------------------------------------------
\* the last request was a step that was counted: it went through the ticks
\* and the termination check of a session that was not done
Counted ==
    /\ request.op = "step"
    /\ response.success
    /\ response.info.reason # "already_done"

\* what the task reports of a session as a step left it: a failure is read
\* from the world (the failure tests of checkTermination do not depend on
\* the streak), a success from the streak having reached its length
Reported(env) ==
    LET failure == checkTermination(env.task, env.world)
    IN IF failure.reason \in FailureReasons THEN failure.reason
       ELSE IF env.task.successSteps >= requiredSuccessSteps
       THEN (IF env.task.cls \in GapClasses THEN "reached_goal" ELSE "block_in_basket")
       ELSE "ongoing"

\* C11: a counted step marks the session done exactly when the task reports
\* termination or the step counter has reached the budget; a step that
\* exhausts the budget while the task goes on answers done, no success and
\* the reason 'timeout'; a step on which the task reports termination
\* answers the task's own reason, never 'timeout', also when it is the step
\* that exhausts the budget.
C11_DoneIffTerminatedOrBudget ==
    Counted =>
        LET env == environments[SessionId(request.body)]
            reported == Reported(env)
            exhausted == BudgetExhausted(env.stepCount, env.config)
        IN /\ response.info.step = env.stepCount
           /\ response.done = env.done
           /\ env.done <=> (reported # "ongoing" \/ exhausted)
           /\ (exhausted /\ reported = "ongoing")
                  => /\ response.done
                     /\ ~response.info.success
                     /\ response.info.reason = "timeout"
           /\ reported # "ongoing" => response.info.reason = reported
           /\ response.info.reason = "timeout" => exhausted

\* the task reports a failure on the very step that exhausts the budget
C11_Witness ==
    /\ Counted
    /\ response.info.step = EpisodeSteps
    /\ BudgetExhausted(environments["e"].stepCount, environments["e"].config)
    /\ response.done
    /\ response.info.reason = "fell_side"


\* C12 as stated: every step response that reports success, the response to
\* a step on a session that is already done included, carries observation,
\* reward, done and an info record with step, success, reason and
\* totalReward.
C12_StepResponseComplete ==
    (request.op = "step" /\ response.success)
    => /\ {"observation", "reward", "done", "info"} \subseteq DOMAIN response
       /\ {"step", "success", "reason", "totalReward"} \subseteq DOMAIN response.info


\* C13: a reset or a step on one session leaves every other session as it
\* was -- step counter, total reward, done flag, configuration, task state
\* and world -- and so does the passing of time, in every interleaving of
\* the requests of two clients.
C13_SessionsIsolated ==
    [][\A other \in DOMAIN environments :
          (request'.op \in {"reset", "step"} /\ SessionId(request'.body) = other
              /\ (ResetTaken \/ StepTaken))
          \/ (other \in DOMAIN environments'
                 /\ environments'[other] = environments[other]
                 /\ sessionLog'[other] = sessionLog[other])]_vars

\* p takes a counted step while q is in the middle of its episode
C13_Witness ==
    /\ Counted
    /\ SessionId(request.body) = "p"
    /\ environments["p"].stepCount = 2
    /\ "q" \in DOMAIN environments
    /\ environments["q"].stepCount = 1
    /\ ~environments["q"].done


\* C14: a step runs to its end before any other request is served: in every
\* state a request can find, each session's world has taken all the ticks
\* of every step counted for it and no tick more, its done flag and total
\* reward are those of its last counted step, and a counted step takes the
\* session from one such state to the next in one transition.
C14_StepIsAtomic ==
    /\ [](\A sessionId \in DOMAIN environments :
            LET env == environments[sessionId]
            IN /\ env.world.stepnumber = env.stepCount * TickCount(env.config)
               /\ IsTask(env.task) =>
                     /\ env.stepCount = Len(sessionLog[sessionId].actions)
                     /\ env.stepCount > 0 =>
                           /\ sessionLog[sessionId].last.info.step = env.stepCount
                           /\ sessionLog[sessionId].last.done = env.done
                           /\ sessionLog[sessionId].last.info.totalReward = env.totalReward
                           /\ sessionLog[sessionId].last.observation =
                                  getObservation(env.task, env.world, env.config))
    /\ [][LET sessionId == SessionId(request'.body)
          IN (StepTaken /\ response'.success /\ response'.info.reason # "already_done")
             => /\ environments'[sessionId].stepCount = environments[sessionId].stepCount + 1
                /\ environments'[sessionId].world.stepnumber =
                       environments[sessionId].world.stepnumber
                       + TickCount(environments[sessionId].config)
                /\ environments'[sessionId].totalReward =
                       environments[sessionId].totalReward + response'.reward]_vars

\* two clients, each in the middle of its episode, the steps of one between
\* the steps of the other
C14_Witness ==
    /\ Counted
    /\ SessionId(request.body) = "q"
    /\ "p" \in DOMAIN environments
    /\ environments["p"].stepCount = 1
    /\ environments["p"].world.stepnumber = 2
    /\ environments["q"].stepCount = 2
    /\ environments["q"].world.stepnumber = 4


\* the process has run the handler of the request at the head of the queue
Served == pending # <<>> /\ pending' = Tail(pending) /\ request' = [op |-> "step", body |-> Head(pending)]

\* C15 as stated: a step of one session never waits behind the stepping of
\* another session: whenever the process runs a step of one session, no
\* step that has arrived for another session is left waiting for it to end.
C15_NoStepWaitsBehindAnother ==
    [][Served => \A i \in 1 .. Len(pending') :
                    SessionId(pending'[i]) = SessionId(request'.body)]_vars


\* a body the task of the session reads is absent from its world
MissingBody(env) == IsTask(env.task) /\ ObservationThrows(env.task, env.world)

\* C16 as stated: a step of a session that is not done, taken while a body
\* its task expects is absent, is answered as a success with done, no
\* success and the reason 'agent_missing' (traversal) or 'missing_objects'
\* (manipulation), and leaves the session done.
C16_MissingBodyEndsEpisode ==
    [][LET sessionId == SessionId(request'.body)
       IN (/\ StepTaken
           /\ HasAction(request'.body)
           /\ sessionId \in DOMAIN environments
           /\ ~environments[sessionId].done
           /\ MissingBody(environments[sessionId]))
          => /\ response'.success
             /\ response'.done
             /\ ~response'.info.success
             /\ response'.info.reason =
                    IF environments[sessionId].task.cls \in GapClasses
                    THEN "agent_missing" ELSE "missing_objects"
             /\ environments'[sessionId].done]_vars


\* the agent of a manipulation session stands within the pickup radius of
\* the block, in the plane
InPickupRange(env) ==
    LET agent == env.world.bodies["agent"]
        block == env.world.bodies["block"]
    IN Within(agent.pos[1] - block.pos[1], agent.pos[3] - block.pos[3], pickupRange(env.task.cls))

\* C17 as stated: in a manipulation session whose agent holds nothing, a
\* 'pick' step issued within the pickup radius (1.5, second revision 1.8)
\* is answered with holding true, and a 'pick' step issued from outside the
\* radius with holding false, whatever the agent's velocity.
C17_PickByRadiusAtIssue ==
    [][LET sessionId == SessionId(request'.body)
       IN (/\ StepTaken
           /\ request'.body.action = Str("pick")
           /\ sessionId \in DOMAIN environments
           /\ ~environments[sessionId].done
           /\ environments[sessionId].task.cls \in {"ThrowBlockTask", "ThrowBlockTaskV2"}
           /\ ~environments[sessionId].task.holdingBlock
           /\ response'.success)
          => response'.observation.holdingBlock = InPickupRange(environments[sessionId])]_vars


\* C18: the step that ends a traversal episode, whatever the actions that
\* led to it, carries one of the reasons reached_goal, fell, fell_side and
\* timeout, and no step response with done carries 'agent_missing' or
\* 'ongoing'.
C18_TraversalTerminalReasons ==
    /\ \A sessionId \in DOMAIN sessionLog :
          LET log == sessionLog[sessionId]
          IN (/\ environments[sessionId].task.cls \in GapClasses
              /\ log.last.op = "step"
              /\ log.last.done)
             => log.last.info.reason \in {"reached_goal", "fell", "fell_side", "timeout"}
    /\ (/\ request.op = "step"
         /\ response.success
         /\ response.done
         /\ response.observation.cls \in GapClasses)
        => response.info.reason \notin {"agent_missing", "ongoing"}

\* a first-revision traversal episode ends with the agent fallen off the
\* platform
C18_Witness ==
    /\ Counted
    /\ response.done
    /\ response.observation.cls = "GapCrossingTask"
    /\ response.info.reason = "fell"


\* the names a client may try as task identifiers
TaskNames == {TaskKeys[i] : i \in DOMAIN TaskKeys} \cup {"constructor", "toString", "nope"}

\* C19 as stated: the info response lists the registered task identifiers,
\* and for each identifier it lists, the action vocabulary under that
\* identifier, equal to the action list of the task registered under it.
C19_InfoListsEveryVocabulary ==
    request.op = "info"
    => /\ {response.tasks[i] : i \in DOMAIN response.tasks}
             = {name \in TaskNames : TASKS(name).kind = "task"}
       /\ \A i \in DOMAIN response.tasks :
             /\ response.tasks[i] \in DOMAIN response.actions
             /\ response.actions[response.tasks[i]] = actions(TASKS(response.tasks[i]).cls)


\* the drawn quantity of an episode as an observation reports it: the gap
\* width, or the distance of the basket
Drawn(observation) ==
    IF observation.cls \in GapClasses THEN observation.gapWidth
    ELSE observation.basketPosition[1]

\* C20: the generator is advanced at setup and never after: in every state
\* each session's generator state is the one a single draw from the seed its
\* reset supplied leaves, no step, action or termination check changes it
\* or the drawn gap width or basket distance, and these are reported the
\* same in every observation of the episode.
C20_GeneratorOnlyAtSetup ==
    /\ [](\A sessionId \in DOMAIN sessionLog :
            LET env == environments[sessionId]
                log == sessionLog[sessionId]
            IN IsTask(env.task) =>
                 /\ env.config.seed = Num(NextSeed(Spread(DEFAULT_CONFIG, log.config).seed))
                 /\ Drawn(log.last.observation) = Drawn(log.first.observation)
                 /\ Drawn(log.first.observation) =
                        IF env.task.cls \in GapClasses THEN env.task.actualGapWidth
                        ELSE env.task.actualBasketDistance)
    /\ [][StepTaken =>
            \A sessionId \in DOMAIN environments :
                /\ environments'[sessionId].config.seed = environments[sessionId].config.seed
                /\ environments'[sessionId].task.actualGapWidth =
                       environments[sessionId].task.actualGapWidth
                /\ environments'[sessionId].task.actualBasketDistance =
                       environments[sessionId].task.actualBasketDistance]_vars


\* a second-revision traversal episode whose gap was drawn 19 mm wider than
\* the nominal 4.6 m reports that width at its fifth step
C20_Witness ==
    /\ Counted
    /\ environments["e"].task.cls = "GapCrossingTaskV2"
    /\ environments["e"].stepCount = 5
    /\ environments["e"].task.actualGapWidth = 4619
    /\ response.observation.gapWidth = 4619
    /\ environments["e"].config.seed = Num(NextSeed(Num(7)))


\* C21 as stated: the configuration a task was constructed with is a
\* snapshot: in every state the configuration of a session is, field for
\* field, the merged configuration its reset built from the defaults and
\* the request.
C21_ConfigIsSnapshot ==
    \A sessionId \in DOMAIN sessionLog :
        IsTask(environments[sessionId].task)
        => environments[sessionId].config = Spread(DEFAULT_CONFIG, sessionLog[sessionId].config)


\* C22 as stated: after setup() has been run again on the task of a
\* session, the scene is as the first run left it: the same gap width or
\* basket distance, the same goal zone or basket bounds, and the same
\* bodies in the world, none added and none twice.
C22_SetupIsIdempotent ==
    request.op = "setup"
    => LET sessionId == SessionId(request.body)
           env == environments[sessionId]
           merged == Spread(DEFAULT_CONFIG, sessionLog[sessionId].config)
           once == NewTask(env.task.cls, PhysicsWorld(merged.gravity, merged.timeStep), merged)
       IN /\ env.task.actualGapWidth = once.task.actualGapWidth
          /\ env.task.actualBasketDistance = once.task.actualBasketDistance
          /\ env.task.goalZone = once.task.goalZone
          /\ env.task.basketBounds = once.task.basketBounds
          /\ DOMAIN env.world.bodies = DOMAIN once.world.bodies
          /\ env.world.engine = once.world.engine


\* the session was never asked to jump
NeverJumped(log) ==
    \A i \in DOMAIN log.actions : log.actions[i].action # Str("jump")

\* C23 as stated: a traversal session with a gap wider than 0 that was
\* never asked to jump has not ended with the reason 'reached_goal'.
C23_NoCrossingWithoutJump ==
    \A sessionId \in DOMAIN sessionLog :
        LET env == environments[sessionId]
            log == sessionLog[sessionId]
        IN (/\ env.task.cls \in GapClasses
            /\ env.task.actualGapWidth > 0
            /\ NeverJumped(log)
            /\ log.last.op = "step")
           => log.last.info.reason # "reached_goal"


\* the task and world after n rounds of: apply the action, then one tick
RECURSIVE Rounds(_, _, _, _, _)
Rounds(env, action, params, clock, n) ==
    IF n = 0 THEN [task |-> env.task, world |-> env.world]
    ELSE LET before == Rounds(env, action, params, clock, n - 1)
             applied == applyAction(before.task, before.world, env.config, action, params, clock)
         IN [task |-> applied.task, world |-> WorldStep(applied.world)]

\* C24: a counted step leaves the world as physicsTicksPerStep rounds of
\* 'apply the action, then advance one tick' leave it, the step counter one
\* higher, the task as one termination check after the last tick leaves it
\* (none between the ticks), and the total reward higher by the reward of
\* that one check, which is the reward answered.
C24_StepSequence ==
    [][LET sessionId == SessionId(request'.body)
       IN (StepTaken /\ response'.success /\ response'.info.reason # "already_done")
          => LET env == environments[sessionId]
                 after == environments'[sessionId]
                 ticked == Rounds(env, request'.body.action, request'.body, now,
                                  TickCount(env.config))
                 term == checkTermination(ticked.task, ticked.world)
             IN /\ after.world = ticked.world
                /\ after.world.stepnumber = env.world.stepnumber + TickCount(env.config)
                /\ after.task = term.task
                /\ after.task.successSteps \in {0, env.task.successSteps, env.task.successSteps + 1}
                /\ after.stepCount = env.stepCount + 1
                /\ response'.reward = getReward(term.done, term.success)
                /\ after.totalReward = env.totalReward + response'.reward
                /\ response'.info.success = term.success]_vars

\* a second step of two ticks, in which the block, held, is carried forward:
\* the action was applied before each tick
C24_Witness ==
    /\ Counted
    /\ request.body.action = Num(0)
    /\ TickCount(environments["e"].config) = 2
    /\ environments["e"].task.holdingBlock
    /\ environments["e"].stepCount = 2
    /\ environments["e"].world.stepnumber = 4
    /\ environments["e"].world.bodies["agent"].vel[1] > 0


\* the spellings of an action name that differ from it in letter case only
Spellings(name) == {pair[1] : pair \in {p \in Cased : p[2] = name}}

\* C25: in every state of a session, for every position of its task's action
\* list, one application of the index leaves the task and the world as one
\* application of the name at that position does, and so does one application
\* of the name in any other letter case.
C25_ActionNormalization ==
    \A sessionId \in DOMAIN environments :
        LET env == environments[sessionId]
        IN IsTask(env.task)
           => \A i \in DOMAIN actions(env.task.cls) :
                LET name == actions(env.task.cls)[i]
                    byName == applyAction(env.task, env.world, env.config, Str(name),
                                          Do(sessionId, Str(name)), now)
                IN /\ ~byName.threw
                   /\ applyAction(env.task, env.world, env.config, Num(i - 1),
                                  Do(sessionId, Num(i - 1)), now) = byName
                   /\ \A spelling \in Spellings(name) :
                        applyAction(env.task, env.world, env.config, Str(spelling),
                                    Do(sessionId, Str(spelling)), now) = byName

\* the fifth action by its index has acted: the agent of a traversal task has
\* left the ground, the agent of a manipulation task holds the block
C25_Witness ==
    /\ Counted
    /\ request.body.action = Num(4)
    /\ LET env == environments["e"]
       IN \/ env.task.cls \in GapClasses /\ env.world.bodies["agent"].vel[2] > 0
          \/ env.task.cls \notin GapClasses /\ env.task.holdingBlock


\* the maximum speed the statement names for each task, in thousandths
SpeedLimit(cls) == IF cls = "GapCrossingTask" THEN 5000 ELSE 4000

\* the square of the agent's speed over the ground
HorizontalSpeedSquared(agent) == agent.vel[1] * agent.vel[1] + agent.vel[3] * agent.vel[3]

\* C26 as stated: in every state of a session, whatever action of the task's
\* list is applied next, with or without a scaling parameter, the agent's
\* horizontal speed after the application (the magnitude of its (x, z)
\* velocity) is at most the task's maximum speed: 5.0 in the first traversal
\* revision, 4.0 in the other three tasks.
C26_HorizontalSpeedBounded ==
    \A sessionId \in DOMAIN environments :
        LET env == environments[sessionId]
        IN (IsTask(env.task) /\ hasBody(env.world, "agent"))
           => \A i \in DOMAIN actions(env.task.cls) :
                \A params \in {Do(sessionId, Str(actions(env.task.cls)[i])),
                                Spread(Do(sessionId, Str(actions(env.task.cls)[i])),
                                       [durationScale |-> Num(2000)])} :
                    LET after == applyAction(env.task, env.world, env.config,
                                             params.action, params, now)
                    IN HorizontalSpeedSquared(after.world.bodies["agent"])
                       <= SpeedLimit(env.task.cls) * SpeedLimit(env.task.cls)


\* C27 as stated: in the second traversal revision a 'jump' applied less
\* than the cooldown interval (500 ms) after the agent landed gives no
\* vertical impulse.  A 'jump' step that arrives while the agent is in the
\* air applies every one of its jumps at the time of the landing, if the
\* agent lands during the step at all: no jump fires in such a step.
C27_NoJumpWithinCooldownOfLanding ==
    [][LET sessionId == SessionId(request'.body)
       IN (/\ StepTaken
           /\ request'.body.action = Str("jump")
           /\ sessionId \in DOMAIN environments
           /\ ~environments[sessionId].done
           /\ environments[sessionId].task.cls = "GapCrossingTaskV2"
           /\ hasBody(environments[sessionId].world, "agent")
           /\ ~Grounded(environments[sessionId].world.bodies["agent"])
           /\ response'.success)
          => environments'[sessionId].task.lastJumpTime
             = environments[sessionId].task.lastJumpTime]_vars


\* sessions of the second traversal revision in which one application of
\* 'jump' now would fire: the time of the last jump becomes the present
JumpFires(env) ==
    /\ IsTask(env.task)
    /\ env.task.cls = "GapCrossingTaskV2"
    /\ hasBody(env.world, "agent")
    /\ env.task.lastJumpTime # now
    /\ applyAction(env.task, env.world, env.config, Str("jump"), EmptyObject, now).task.lastJumpTime = now

\* the vertical velocity one application of 'jump' leaves
JumpLeaves(env) ==
    applyAction(env.task, env.world, env.config, Str("jump"), EmptyObject, now).world.bodies["agent"].vel[2]

\* v is sqrt(2 * g * 1.2), to the thousandth below
IsBaseJump(env, v) ==
    /\ v >= 0
    /\ v * v <= 2 * env.config.gravity.n * 1200
    /\ (v + 1) * (v + 1) > 2 * env.config.gravity.n * 1200

\* the vertical velocity is the base jump velocity, with the factor 1.3 or
\* without it
JumpIs(env, bonus) ==
    \E v \in 0 .. 10000 :
        /\ IsBaseJump(env, v)
        /\ JumpLeaves(env) = IF bonus THEN (v * 13) \div 10 ELSE v

\* C28 as stated: a jump that fires in the second traversal revision sets
\* the vertical velocity to sqrt(2*g*1.2) times 1.3 exactly when the agent's
\* horizontal speed exceeds 1.5, in whatever direction it moves, and to
\* sqrt(2*g*1.2) otherwise.
C28_RunUpAnyDirection ==
    \A sessionId \in DOMAIN environments :
        LET env == environments[sessionId]
        IN JumpFires(env)
           => JumpIs(env, HorizontalSpeedSquared(env.world.bodies["agent"]) > 1500 * 1500)

\* C28, amended: a jump that fires in the second traversal revision sets the
\* vertical velocity to sqrt(2*g*1.2) times 1.3 exactly when the agent's
\* forward velocity (the x component, signed) exceeds 1.5, and to
\* sqrt(2*g*1.2) otherwise: moving backward or sideways earns no bonus.
C28_RunUpForward ==
    \A sessionId \in DOMAIN environments :
        LET env == environments[sessionId]
        IN JumpFires(env) => JumpIs(env, env.world.bodies["agent"].vel[1] > 1500)

\* a jump has fired with the run-up bonus: after one tick of a quarter of a
\* second the agent still rises with 1.3 * 4.852 - 9.81 / 4
C28_Witness ==
    /\ Counted
    /\ request.body.action \in {Num(4), Str("JUMP")}
    /\ environments["e"].task.cls = "GapCrossingTaskV2"
    /\ environments["e"].task.lastJumpTime = now
    /\ environments["e"].world.bodies["agent"].vel[1] > 1500
    /\ environments["e"].world.bodies["agent"].vel[2] = (4852 * 13) \div 10 - 9810 \div 4


\* the manipulation sessions whose agent and block exist
Manipulation(env) ==
    /\ IsTask(env.task)
    /\ env.task.cls \in {"ThrowBlockTask", "ThrowBlockTaskV2"}
    /\ hasBody(env.world, "agent")
    /\ hasBody(env.world, "block")

\* the request bodies that apply the action at position i of a session's
\* action list: without a scaling parameter, and with the scale 2
Applications(sessionId, cls, i) ==
    {Do(sessionId, Str(actions(cls)[i])),
     Spread(Do(sessionId, Str(actions(cls)[i])), [durationScale |-> Num(2000)])}

\* C29: in every state of a manipulation session of either revision,
\* whatever action is applied next, if the block is held at the end of the
\* application (the application that picks it up included), the block is at
\* the agent's position plus (0.5, 0.2, 0) and its velocity is zero.
C29_HeldBlockFollowsAgent ==
    \A sessionId \in DOMAIN environments :
        LET env == environments[sessionId]
        IN Manipulation(env)
           => \A i \in DOMAIN actions(env.task.cls) :
                \A params \in Applications(sessionId, env.task.cls, i) :
                    LET after == applyAction(env.task, env.world, env.config,
                                             params.action, params, now)
                        agent == after.world.bodies["agent"]
                        block == after.world.bodies["block"]
                    IN after.task.holdingBlock
                       => /\ block.pos = Vec(agent.pos[1] + 500, agent.pos[2] + 200, agent.pos[3])
                          /\ block.vel = Vec(0, 0, 0)
                          /\ block.nan = <<FALSE, FALSE, FALSE>>

\* a 'pick' step has picked the block up and put it beside the agent, and
\* the tick that followed has set the block falling: the next application
\* has a velocity to take away
C29_Witness ==
    /\ Counted
    /\ request.body.action \in {Num(4), Str("Pick")}
    /\ Manipulation(environments["e"])
    /\ environments["e"].task.holdingBlock
    /\ environments["e"].world.bodies["block"].pos[1]
       = environments["e"].world.bodies["agent"].pos[1] + 500
    /\ environments["e"].world.bodies["block"].vel[2] < 0


ReleaseActions == {"drop", "throw_weak", "throw_medium", "throw_strong"}

\* C30: in every state of a manipulation session, whatever action is applied
\* next: the holding flag goes from false to true only if the action is
\* 'pick' and the block is within the pickup radius, and from true to false
\* only if the action is 'drop' or 'throw_*'; a 'drop' or 'throw_*' applied
\* while the block is not held leaves the flag, the block's position and the
\* block's velocity as they were; and a second application of a 'drop' or
\* 'throw_*', one tick after the first, leaves the block as that tick left it.
C30_HoldingChangesByPickDropThrow ==
    \A sessionId \in DOMAIN environments :
        LET env == environments[sessionId]
        IN Manipulation(env)
           => \A i \in DOMAIN actions(env.task.cls) :
                \A params \in Applications(sessionId, env.task.cls, i) :
                    LET name == actions(env.task.cls)[i]
                        held == env.task.holdingBlock
                        after == applyAction(env.task, env.world, env.config,
                                             params.action, params, now)
                        ticked == WorldStep(after.world)
                        again == applyAction(after.task, ticked, env.config,
                                             params.action, params, now)
                    IN /\ (~held /\ after.task.holdingBlock)
                          => (name = "pick" /\ InPickupRange(env))
                       /\ (held /\ ~after.task.holdingBlock) => name \in ReleaseActions
                       /\ (~held /\ name \in ReleaseActions)
                          => /\ ~after.task.holdingBlock
                             /\ after.world.bodies["block"] = env.world.bodies["block"]
                       /\ name \in ReleaseActions
                          => /\ ~again.task.holdingBlock
                             /\ again.world.bodies["block"] = ticked.bodies["block"]

\* a throw step of two ticks has let go of the block on its first tick, and
\* the block has flown for both: it is two ticks of its velocity away from
\* where the first revision releases it, 0.8 in front of the agent
C30_Witness ==
    /\ Counted
    /\ request.body.action = Num(7)
    /\ Manipulation(environments["e"])
    /\ environments["e"].task.cls = "ThrowBlockTask"
    /\ TickCount(environments["e"].config) = 2
    /\ ~environments["e"].task.holdingBlock
    /\ environments["e"].world.bodies["block"].vel[1] > 0
    /\ environments["e"].world.bodies["block"].pos[1]
       = environments["e"].world.bodies["agent"].pos[1] + 800
         + 2 * (environments["e"].world.bodies["block"].vel[1] \div 4)


ThrowNames == {"throw_weak", "throw_medium", "throw_strong"}

\* the table magnitude of a throw
Strength(cls, name) ==
    IF cls = "ThrowBlockTask" THEN throwStrengthsV1(name) ELSE throwStrengthsV2(name)

\* a and b differ by at most one part in a hundred of b
Near(a, b) == Abs(a - b) <= b \div 100

\* C31 as stated: in every state of a manipulation session of either
\* revision in which the block is held, a throw sets the block's velocity to
\* numbers (none of them NaN) whose magnitude is the table magnitude of the
\* chosen strength, with the vertical part magnitude * sin(angle) and the
\* horizontal part magnitude * cos(angle) at one launch angle (45 degrees in
\* the second revision), the horizontal part pointing from the release point
\* to the basket centre (x = basket distance, z = 0).
C31_ThrowDecomposition ==
    \A sessionId \in DOMAIN environments :
        LET env == environments[sessionId]
        IN (Manipulation(env) /\ env.task.holdingBlock)
           => \A name \in ThrowNames :
                LET after == applyAction(env.task, env.world, env.config, Str(name),
                                         Do(sessionId, Str(name)), now)
                    block == after.world.bodies["block"]
                    magnitude == Strength(env.task.cls, name)
                    toBasketX == env.task.actualBasketDistance - block.pos[1]
                    toBasketZ == 0 - block.pos[3]
                IN /\ block.nan = <<FALSE, FALSE, FALSE>>
                   /\ Near(block.vel[1] * block.vel[1] + block.vel[2] * block.vel[2]
                             + block.vel[3] * block.vel[3],
                           magnitude * magnitude)
                   /\ env.task.cls = "ThrowBlockTaskV2"
                      => /\ Near(block.vel[2], (magnitude * 7071) \div 10000)
                         /\ Near(2 * block.vel[2] * block.vel[2], magnitude * magnitude)
                   \* the horizontal part is along (toBasketX, toBasketZ)
                   /\ Abs(block.vel[1] * toBasketZ - block.vel[3] * toBasketX)
                      <= Abs(toBasketX) + Abs(toBasketZ)
                   /\ block.vel[1] * toBasketX + block.vel[3] * toBasketZ >= 0


\* the velocity a throw of the given strength would give the block now, and
\* the place it would release it at
ThrownBlock(env, sessionId, name) ==
    applyAction(env.task, env.world, env.config, Str(name),
                Do(sessionId, Str(name)), now).world.bodies["block"]

\* the block leaves along the planar direction from where it is to the
\* basket centre, with the magnitude split at 45 degrees
Aimed(env, block, magnitude) ==
    LET toBasketX == env.task.actualBasketDistance - block.pos[1]
        toBasketZ == 0 - block.pos[3]
    IN IF toBasketX = 0 /\ toBasketZ = 0
       THEN \* no direction: 0 / 0
            /\ block.nan[1] /\ block.nan[3] /\ ~block.nan[2]
            /\ Near(block.vel[2], (magnitude * 7071) \div 10000)
       ELSE /\ block.nan = <<FALSE, FALSE, FALSE>>
            /\ Near(block.vel[1] * block.vel[1] + block.vel[2] * block.vel[2]
                      + block.vel[3] * block.vel[3],
                    magnitude * magnitude)
            /\ Near(block.vel[2], (magnitude * 7071) \div 10000)
            /\ Abs(block.vel[1] * toBasketZ - block.vel[3] * toBasketX)
               <= Abs(toBasketX) + Abs(toBasketZ)
            /\ block.vel[1] * toBasketX + block.vel[3] * toBasketZ >= 0

\* the block leaves straight ahead with the magnitude as its forward speed,
\* and upward with half the magnitude times sqrt(gravity / 9.81)
Lobbed(env, block, magnitude) ==
    /\ block.nan = <<FALSE, FALSE, FALSE>>
    /\ block.vel[1] = magnitude
    /\ block.vel[3] = 0
    /\ block.vel[2] >= 0
    /\ Near(((block.vel[2] * block.vel[2]) \div 1000) * 981,
            ((magnitude * magnitude) \div 4000) * (env.config.gravity.n \div 10))

\* What the throws do, by revision: in every state of a manipulation session
\* in which the block is held, a throw in the second revision gives the block the table
\* magnitude as its speed, split at 45 degrees and aimed in the plane from
\* the release point at the basket centre (a release exactly at the centre
\* has no direction: the horizontal parts are NaN); a throw in the first
\* revision gives it the velocity (magnitude, magnitude * 0.5 *
\* sqrt(gravity / 9.81), 0), straight ahead, faster than the magnitude.
ThrowsByRevision ==
    \A sessionId \in DOMAIN environments :
        LET env == environments[sessionId]
        IN (Manipulation(env) /\ env.task.holdingBlock /\ env.config.gravity.t = "num"
            /\ env.config.gravity.n >= 0)
           => \A name \in ThrowNames :
                IF env.task.cls = "ThrowBlockTaskV2"
                THEN Aimed(env, ThrownBlock(env, sessionId, name), Strength(env.task.cls, name))
                ELSE Lobbed(env, ThrownBlock(env, sessionId, name), Strength(env.task.cls, name))


StrengthNames == {"weak", "medium", "strong"}

\* the throw table of the second revision: weak 4.0, medium 6.0, strong 8.5
TableEntry(name) == CASE name = "weak" -> 4000 [] name = "medium" -> 6000 [] OTHER -> 8500

\* |v^2 * sin(90 degrees) / g - d|, multiplied by |g|
RangeError(name, g, d) == Abs(TableEntry(name) * TableEntry(name) - d * g)

\* no entry of the table has a range nearer to the distance
IsClosest(name, g, d) ==
    /\ name \in StrengthNames
    /\ \A other \in StrengthNames : RangeError(name, g, d) <= RangeError(other, g, d)

\* gravities to try the hint with: the Moon, Mars, the Earth, Jupiter, and
\* one that points upward
HintGravities == {1620, 3720, 9810, 24790, 0 - 9810}

\* C32: the hint in the last observation of a session of the second
\* manipulation revision is an entry of the throw table whose range
\* v^2 * sin(2 * 45 degrees) / g at the session's gravity is nearest to the
\* distance from the agent to the basket in that observation; and for that
\* distance the hint would be a nearest entry at every other gravity too.
C32_HintIsNearestRange ==
    (response.op \in {"reset", "step"} /\ response.success
     /\ response.observation.cls = "ThrowBlockTaskV2"
     /\ ~response.observation.agentNaN[1])
    => LET observation == response.observation
           distance == observation.basketPosition[1] - observation.agentPosition[1]
       IN /\ (observation.gravity.t = "num" /\ observation.gravity.n # 0)
             => IsClosest(observation.optimalThrowStrength, observation.gravity.n, distance)
          /\ \A g \in HintGravities : IsClosest(OptimalThrowStrength(Num(g), distance), g, distance)

\* the agent has walked towards the basket and the hint has changed from
\* the strongest throw to the entry in the middle
C32_Witness ==
    /\ Counted
    /\ response.observation.cls = "ThrowBlockTaskV2"
    /\ response.observation.agentPosition[1] > 0 - 1500
    /\ response.observation.optimalThrowStrength = "medium"
    /\ sessionLog["e"].first.observation.optimalThrowStrength = "strong"

-----------------------------------------------------------------------------
(* The draw of an episode *)

\* the base and the variance an episode was set up with
BaseOf(env) ==
    LET cls == env.task.cls
    IN IF cls = "GapCrossingTask" THEN Coalesce(Get(env.config, "gapWidth"), Num(3000)).n
       ELSE IF cls = "GapCrossingTaskV2" THEN Coalesce(Get(env.config, "gapWidth"), Num(4600)).n
       ELSE IF cls = "ThrowBlockTask" THEN Coalesce(Get(env.config, "basketDistance"), Num(6000)).n
       ELSE Coalesce(Get(env.config, "basketDistance"), Num(4000)).n

VarianceOf(env) ==
    LET cls == env.task.cls
    IN IF cls = "GapCrossingTask" THEN Coalesce(Get(env.config, "gapVariance"), Num(500)).n
       ELSE IF cls = "GapCrossingTaskV2" THEN Coalesce(Get(env.config, "gapVariance"), Num(100)).n
       ELSE IF cls = "ThrowBlockTask"
       THEN Coalesce(Get(env.config, "basketDistanceVariance"), Num(1000)).n
       ELSE Coalesce(Get(env.config, "basketDistanceVariance"), Num(500)).n

DrawnOf(env) ==
    IF env.task.cls \in GapClasses THEN env.task.actualGapWidth
    ELSE env.task.actualBasketDistance

\* C33: for every integer seed the generator's state after the draw of the
\* setup lies in 0 .. 2^31 - 1, so its output state / 0x7fffffff lies in
\* [0, 1] (here in thousandths), and the gap width of a traversal episode
\* and the basket distance of a manipulation episode lie within the base
\* minus the variance and the base plus the variance.
C33_DrawWithinVariance ==
    \A sessionId \in DOMAIN environments :
        LET env == environments[sessionId]
        IN IsTask(env.task) =>
             /\ env.config.seed.t = "num"
             /\ env.config.seed.n \in 0 .. MaxInt31
             /\ ScaleBySeed(env.config.seed.n, 1000) \in 0 .. 1000
             /\ DrawnOf(env) >= BaseOf(env) - VarianceOf(env)
             /\ DrawnOf(env) <= BaseOf(env) + VarianceOf(env)

\* a first-revision traversal episode seeded with 1116302080, whose product
\* with the multiplier is beyond 2^53, and a variance of 0.3: the state
\* after the draw is 1964818176 and the gap is 3.248 for a base of 3
C33_Witness ==
    /\ response.op = "reset"
    /\ "e" \in DOMAIN sessionLog
    /\ sessionLog["e"].config.seed = Num(1116302080)
    /\ environments["e"].task.cls = "GapCrossingTask"
    /\ environments["e"].config.seed = Num(1964818176)
    /\ VarianceOf(environments["e"]) = 300
    /\ environments["e"].task.actualGapWidth = 3248

-----------------------------------------------------------------------------
(* The observation *)

\* the grounded predicate on the agent state an observation reports
GroundedIn(observation) ==
    Grounded([pos |-> observation.agentPosition, vel |-> observation.agentVelocity,
              nan |-> observation.agentNaN])

\* C34: every observation is computed from the world as it is: the
\* isGrounded field of the observation of every reset and step response
\* equals the grounded predicate on the agent position and velocity of the
\* same observation.
C34_ObservedGroundedIsCurrent ==
    (response.op \in {"reset", "step"} /\ response.success) =>
        (response.observation.isGrounded <=> GroundedIn(response.observation))

-----------------------------------------------------------------------------
(* The step counter *)

\* the session has a step budget of at least 1
HasBudget(env) == env.config.maxSteps.t = "num" /\ env.config.maxSteps.n >= 1

\* C35: in a session with a step budget of at least 1 the step counter
\* never exceeds the budget and a session whose counter equals the budget
\* is done; the counter increases by exactly 1 on each step carried out on
\* a not-done session and by 0 on every other request that leaves the
\* session in place: a step answered with an error, a step on a done
\* session, a request to another session, an info request.
C35_StepCounterWithinBudget ==
    /\ [](\A sessionId \in DOMAIN environments :
            LET env == environments[sessionId]
            IN HasBudget(env) =>
                 /\ env.stepCount <= env.config.maxSteps.n
                 /\ env.stepCount = env.config.maxSteps.n => env.done)
    /\ [][\A sessionId \in DOMAIN environments :
            (sessionId \in DOMAIN environments'
             /\ environments'[sessionId].object = environments[sessionId].object
             /\ HasBudget(environments[sessionId])) =>
                environments'[sessionId].stepCount =
                    environments[sessionId].stepCount +
                        (IF /\ StepTaken
                            /\ SessionId(request'.body) = sessionId
                            /\ response'.success
                            /\ ~environments[sessionId].done
                         THEN 1 ELSE 0)]_vars

-----------------------------------------------------------------------------
(* The reward *)

\* the step request just answered was answered as a step of this session
Answered(sessionId) ==
    /\ StepTaken
    /\ SessionId(request'.body) = sessionId
    /\ response'.success

\* the session's total is 0 or 1, and 1 exactly when its episode has ended
\* with success
TotalIsSuccess ==
    \A sessionId \in DOMAIN sessionLog :
        LET env == environments[sessionId]
            log == sessionLog[sessionId]
        IN IsTask(env.task) =>
             /\ env.totalReward \in {0, 1}
             /\ env.totalReward = 1 <=>
                    /\ env.done
                    /\ log.last.op = "step"
                    /\ log.last.info.success

\* a step carried out returns 0 or 1, returns 1 only in a session that had
\* 0, and reports the total it leaves: the old total plus its reward
RewardAdds(sessionId) ==
    (Answered(sessionId) /\ response'.info.reason # "already_done") =>
        /\ response'.reward \in {0, 1}
        /\ response'.reward = 1 => environments[sessionId].totalReward = 0
        /\ response'.info.totalReward = environments[sessionId].totalReward + response'.reward
        /\ environments'[sessionId].totalReward = response'.info.totalReward

\* the accounting of the steps that are carried out, and of the requests
\* that are not steps: they leave the total alone
RewardAccounting ==
    /\ []TotalIsSuccess
    /\ [][\A sessionId \in DOMAIN environments :
            /\ RewardAdds(sessionId)
            /\ (~Answered(sessionId) /\ ~ResetTaken) =>
                 environments'[sessionId].totalReward = environments[sessionId].totalReward]_vars

\* C36: the total reward of a session is 0 or 1, a reward of 1 is returned
\* by at most one step of an episode, the total is 1 exactly when the
\* episode ended with success, and the info.totalReward of every step
\* answered, a step on a done session included, is the sum of the rewards
\* the steps of the session have returned so far, which is the total the
\* session holds.
C36_TotalRewardIsSumOfRewards ==
    /\ []TotalIsSuccess
    /\ [][\A sessionId \in DOMAIN environments :
            /\ RewardAdds(sessionId)
            /\ Answered(sessionId) =>
                 /\ "totalReward" \in DOMAIN response'.info
                 /\ response'.info.totalReward = environments'[sessionId].totalReward]_vars

-----------------------------------------------------------------------------
(* Results *)

SuccessReasons == {"reached_goal", "block_in_basket"}

\* a termination result, or a step result with its reason, is well formed
WellFormed(done, success, reason) ==
    /\ success => done
    /\ success => reason \in SuccessReasons
    /\ reason = "ongoing" <=> ~done

\* C37: every termination result and every step response is well formed:
\* success implies done, success comes only with the reason reached_goal or
\* block_in_basket, the reason is ongoing exactly when done is false, and
\* the reward of a step is 1 when its success flag is true and 0 otherwise.
\* The termination results are those of the check on every session a run
\* reaches; a step on a done session has no success flag, which is not true.
C37_ResultsWellFormed ==
    /\ \A sessionId \in DOMAIN environments :
         LET env == environments[sessionId]
         IN IsTask(env.task) =>
              LET term == checkTermination(env.task, env.world)
              IN /\ WellFormed(term.done, term.success, term.reason)
                 /\ getReward(term.done, term.success) = IF term.success THEN 1 ELSE 0
    /\ (response.op = "step" /\ response.success) =>
         LET success == "success" \in DOMAIN response.info /\ response.info.success
         IN /\ WellFormed(response.done, success, response.info.reason)
            /\ response.reward = IF success THEN 1 ELSE 0

\* the step that ends a manipulation episode with the block in the basket:
\* done, success, reward 1
C37_Witness ==
    /\ response.op = "step"
    /\ response.success
    /\ response.done
    /\ response.info.reason = "block_in_basket"
    /\ response.info.success
    /\ response.reward = 1
    /\ environments[response.sessionId].totalReward = 1

-----------------------------------------------------------------------------
(* Steps that fail *)

\* C38: a step request answered with an error, for a missing action, an
\* unknown session or an action that is neither a string nor a number,
\* leaves the session it addresses as it was: step counter, total reward,
\* done flag, the bodies of the world and the flags of the task.
C38_FailedStepChangesNothing ==
    [][(StepTaken /\ ~response'.success) =>
          \A sessionId \in DOMAIN environments :
              SessionId(request'.body) = sessionId =>
                  /\ sessionId \in DOMAIN environments'
                  /\ environments'[sessionId] = environments[sessionId]]_vars

-----------------------------------------------------------------------------
(* The jump *)

JumpSpellings == {Str("jump"), Str("JUMP"), Num(4)}

\* the agent is at rest on the ground: vertical speed under 0.1 and height
\* under agentHeight / 2 + 0.3
OnGround(agent) ==
    /\ ~agent.nan[2]
    /\ agent.vel[2] > 0 - 100
    /\ agent.vel[2] < 100
    /\ 2 * agent.pos[2] < agentHeight + 600

\* one application of the action leaves the agent's vertical velocity as it
\* was
LeavesVertical(task, world, config, action, clock) ==
    LET agent == world.bodies["agent"]
        after == applyAction(task, world, config, action, EmptyObject, clock).world.bodies["agent"]
    IN /\ after.vel[2] = agent.vel[2]
       /\ after.nan[2] = agent.nan[2]

\* C39: in both traversal revisions a jump changes the agent's vertical
\* velocity only on a tick at whose start the agent is grounded: on every
\* tick of a step of jumps on every session reached, the first tick and
\* those that follow it within the step, with the cooldown running or
\* over, a jump applied to an agent that is not grounded leaves the
\* vertical velocity as it was.
C39_JumpOnlyWhenGrounded ==
    \A sessionId \in DOMAIN environments :
        LET env == environments[sessionId]
        IN (IsTask(env.task) /\ env.task.cls \in GapClasses) =>
             \A action \in JumpSpellings :
               \A i \in 0 .. TickCount(env.config) - 1 :
                 LET before == Rounds(env, action, EmptyObject, now, i)
                 IN (hasBody(before.world, "agent")
                     /\ ~OnGround(before.world.bodies["agent"])) =>
                        \A clock \in {now, now + 2 * jumpCooldownMs} :
                            LeavesVertical(before.task, before.world, env.config, action, clock)

\* a first-revision agent after one step of 'jump': the jump fired on the
\* first tick and the two ticks in the air gave no impulse, so the agent is
\* at 2.02 and falling at 1.092, where one more jump would change nothing
C39_Witness ==
    /\ "e" \in DOMAIN sessionLog
    /\ environments["e"].task.cls = "GapCrossingTask"
    /\ request.op = "step"
    /\ request.body.action = Str("jump")
    /\ response.success
    /\ environments["e"].stepCount = 1
    /\ environments["e"].world.bodies["agent"].pos[2] = 2020
    /\ environments["e"].world.bodies["agent"].vel[2] = 0 - 1092
    /\ ~OnGround(environments["e"].world.bodies["agent"])
    /\ ~environments["e"].task.isGrounded

====
